---- MODULE Spec2Model ----
(***************************************************************************)
(* Model of the audio / playback core of the that72 editor:                *)
(*   AudioEngine (voice allocator), PianoRoll transport, the lookahead     *)
(*   note scheduler and the loop window.                                   *)
(*                                                                         *)
(* Time is counted in units of 50 ms (the scheduler's poll interval), so   *)
(* the 100 ms lookahead is 2 units.  audioContext.currentTime is `now`.    *)
(***************************************************************************)
EXTENDS Integers, Sequences, FiniteSets, TLC

\* ------------------------------------------------------------ bounds
MaxKey == 1            \* keys 0..MaxKey are played
MaxTime == 3           \* the render clock runs 0..MaxTime
MaxVoices == 2         \* audio source nodes alive at one time
MaxPending == 1        \* playNote calls suspended in loadSample at one time
MaxDuration == 2       \* longest note duration handed to playNote directly
MaxMeasure == 4        \* largest measure number a file or an input field carries
MaxTick == 4           \* largest loop position (in ticks) of an ORG header
MaxSchedule == 6       \* schedule measures 0..MaxSchedule-1 are wrapped
MaxLoading == 2        \* loadSample calls awaiting their fetch at one time
MaxBuffers == 4        \* audio buffers created in one run
MaxBankRecords == 7    \* WAVE records in the drum part of a whole drum bank
MaxRecords == 2        \* WAVE records in the drum part of a wavetable blob
MaxNotes == 2          \* most notes of a file handed to calculateMeasures
MaxX == 9              \* last grid position of a note of such a file
MaxPoints == 2         \* most breakpoints of an automation list
MaxAutoTick == 2       \* last tick a breakpoint sits at
MaxBlob == 40          \* most bytes of a blob after its 256 * 100 bytes of waves
MaxSuspended == 2      \* most playNote calls suspended at once, where several are needed
MaxEditX == 4          \* rightmost x of a note under the editor's handlers
MaxEditWidth == 2      \* greatest width of a note under the editor's handlers
MaxOutside == 24       \* keys up to MaxOutside below 0 and above the top key are tried

\* ------------------------------------------------------------ constants
AUDIO_STOP_DELAY == 0  \* stopNote: source.stop(now + AUDIO_STOP_DELAY), a few ms
DrumLength == 2        \* length of the one-shot drum sample
LOOKAHEAD == 2         \* lookAheadTime = 0.1 s
POLL_INTERVAL == 1     \* setTimeout(..., 50)
PIANO_KEY_WIDTH == 1
MeasureWidth == 2      \* grid units per measure (GRID_WIDTH * BEATS_PER_MEASURE)
TicksPerMeasure == 2   \* ORG ticks per measure (stepsPerBar * beatsPerStep)
TOTAL_MEASURES == 128  \* PianoRoll.totalMeasures
DefaultMeasures == 4   \* the default loop end, and the least measure count of a MIDI song
NOTES_PER_OCTAVE == 72 \* 72-EDO: key steps per octave
NUM_OCTAVES == 8       \* octaves of the piano roll (keys 0..575)
DrumTracks == 6        \* the drum tracks of an ORG file, one drum sample each
MAX_DRUMS == 6         \* the most drum names getSampleList gives

Keys == 0..MaxKey
NoVoice == 0
NoBuffer == 0
NoKey == 0 - 1

\* Sample names 'ORG_M00' and 'ORG_D00'; kind is the letter after 'ORG_'.
ORG_M00 == [kind |-> "M", index |-> 0]
ORG_D00 == [kind |-> "D", index |-> 0]
Samples == {ORG_M00, ORG_D00}

\* sampleName.startsWith('ORG_D')
IsDrumName(sampleName) == sampleName.kind = "D"

\* The song: noteManager.notes.  x is the distance from PIANO_KEY_WIDTH in
\* grid units, width the note's length; the tempo makes one grid unit last one
\* time unit (measureDuration = MeasureWidth).
Song == << [x |-> 0, width |-> 1, key |-> 0, instrument |-> ORG_M00],
           [x |-> MeasureWidth, width |-> 1, key |-> 1, instrument |-> ORG_D00] >>

measureDuration == MeasureWidth

NoTimer == 0 - 1
NaN == 0 - 1

VARIABLES
    now,                  \* audioContext.currentTime
    wavetable,            \* AudioEngine.wavetable is loaded (not null)
    loadedSamples,        \* AudioEngine.loadedSamples (names that have a buffer)
    voices,               \* the audio source nodes that exist
    activeNotes,          \* AudioEngine.activeNotes: key -> voice id or NoVoice
    currentGlissandoNote, \* AudioEngine.currentGlissandoNote (voice id or NoVoice)
    currentGlissandoKey,  \* AudioEngine.currentGlissandoKey
    pending,              \* playNote calls suspended at `await loadSample`
    isPlaying,            \* PianoRoll.isPlaying
    isPaused,             \* PianoRoll.isPaused
    currentMeasure,       \* PianoRoll.currentMeasure
    currentSample,        \* PianoRoll.currentSample
    previewNotes,         \* PianoRoll.previewNotes (its keys)
    enginePlaying,        \* the playback engine is running its scheduler
    scheduleTimeout,      \* this.scheduleTimeout, the handle of the timer set last: the
                          \* time that timer is due, or NoTimer
    timers,               \* the timeouts that are pending (set, not yet fired or
                          \* cleared): the time each is due
    sched,                \* the scheduler's cursor: lastScheduledEndTime,
                          \* lastScheduledMeasure, playbackStartTime, playbackStartMeasure
    loopEnabled,          \* PianoRoll.loopEnabled
    loopStart,            \* PianoRoll.loopStart
    loopEnd,              \* PianoRoll.loopEnd
    displayedMeasure,     \* scheduleNotes' displayMeasure, as last computed
    trackVisibility,      \* the instruments whose trackVisibility entry is false
    lastTick,             \* the last scheduling tick: its time, the measures it
                          \* visited and the playNote calls it made
    drums,                \* AudioEngine.drums (the number of its entries)
    drumPos,              \* AudioEngine.drums: the filePos of each entry, as the
                          \* ordinal of its WAVE record in the blob
    loadReturn,           \* what the last loadWavetable call returned
    loadedBlob,           \* the drum part of the blob the last loadWavetable parsed
    rateCall,             \* the last calculatePlaybackRate call and its result
    stopCall,             \* the last stopNote call: its key, the voice it found, what
                          \* the nodes threw, whether stopNote threw; flip changes
                          \* at every call
    sampleBuffers,        \* AudioEngine.loadedSamples with the identity of its
                          \* buffers: name -> buffer id or NoBuffer
    loading,              \* loadSample calls suspended at the fetch of their file
    decoded,              \* the number of audio buffers created so far
    imported,             \* history: the last note an importer's convertToNotes produced
    measuresCall,         \* history: the last calculateMeasures call, notes and result
    programmed,           \* history: the last playNote call with the note it was given and
                          \* the events it programmed on the voice's nodes
    scan,                 \* the drum scan of loadWavetable in progress: its loop
                          \* index and locals, the blob's length, the drums found
    mouse,                \* InputHandler: isGlissando, currentPlayingKey, lastGlissandoKey
    noteManager,          \* NoteManager: notes, selectedNotes, notesByMeasure (measure ->
                          \* the ids of the notes listed), needsNoteGrouping
    drag                  \* InputHandler: the note being dragged or resized, with
                          \* originalPositions (note id -> x) and originalNoteWidth

audioVars == <<wavetable, loadedSamples, voices, activeNotes,
               currentGlissandoNote, currentGlissandoKey, pending>>
transportVars == <<isPlaying, isPaused, currentMeasure, enginePlaying,
                   scheduleTimeout, timers, sched>>
previewVars == <<currentSample, previewNotes>>
loopVars == <<loopEnabled, loopStart, loopEnd, displayedMeasure>>
cacheVars == <<sampleBuffers, loading, decoded>>
storeVars == <<drums, drumPos, loadReturn, loadedBlob, cacheVars>>
editVars == <<noteManager, drag>>
workVars == <<scan, mouse, editVars>>
callVars == <<rateCall, stopCall, imported, measuresCall, programmed, workVars>>

vars == <<now, audioVars, transportVars, previewVars, loopVars, trackVisibility, lastTick,
          storeVars, callVars>>

\* ------------------------------------------------------------ voices
VoiceOf(vs, id) == CHOOSE v \in vs : v.id = id

\* The identity of a new source node: the smallest id not in use.
NewId(vs) ==
    LET free == (1..(Cardinality(vs) + 1)) \ {v.id : v \in vs}
    IN CHOOSE i \in free : \A j \in free : i <= j

\* A source has ended at time t: its stop time has passed, a drum sample has
\* run out, or a melodic source whose loop flag was cleared has finished its cycle.
Ended(v, t) ==
    \/ v.hasStop /\ v.stop <= t
    \/ v.isDrum /\ v.start + DrumLength <= t
    \/ ~v.isDrum /\ ~v.loop /\ v.start < t

\* A source is audible at time t.
Sounding(v, t) == v.start <= t /\ ~Ended(v, t)

\* A melodic voice is active: started, still looping, not stopped or retired.
ActiveMelodic(v, t) == ~v.isDrum /\ v.loop /\ v.start <= t /\ ~Ended(v, t)

Referenced(an, gn) == {an[k] : k \in Keys} \cup {gn}

\* The engine state the AudioEngine methods work on.
AE(an, vs, pd, ls, gn, gk) ==
    [activeNotes |-> an, voices |-> vs, pending |-> pd, loadedSamples |-> ls,
     glissNote |-> gn, glissKey |-> gk]

CurAE == AE(activeNotes, voices, pending, loadedSamples,
            currentGlissandoNote, currentGlissandoKey)

\* A playNote call: playNote(key, velocity, sampleName, isGlissando, pan, when, duration)
\* existing is the call's local existingNote, the melodic voice it found on
\* its key and set non-looping (none before the call has looked).
Call(key, sampleName, isGlissando, when, duration) ==
    [key |-> key, sampleName |-> sampleName, isGlissando |-> isGlissando,
     when |-> when, duration |-> duration, existing |-> NoVoice]

\* loadSample returns without a fetch: the buffer is cached, or it is built
\* from the wavetable (a drum that AudioEngine.drums holds, a melodic wave
\* 0..99).
LoadsAtOnce(ae, wt, sampleName) ==
    \/ sampleName \in ae.loadedSamples
    \/ wt /\ sampleName.kind = "D" /\ sampleName.index < drums
    \/ wt /\ sampleName.kind = "M" /\ sampleName.index <= 99

\* updateGlissandoPitch: retune the glissando voice and move its map entry.
updateGlissandoPitch(ae, key) ==
    LET g == ae.glissNote
        moved == [[ae.activeNotes EXCEPT ![ae.glissKey] = NoVoice] EXCEPT ![key] = g]
    IN [ae EXCEPT !.voices = {IF v.id = g THEN [v EXCEPT !.key = key] ELSE v : v \in ae.voices},
                  !.activeNotes = moved,
                  !.glissKey = key]

\* playNote, "Handle existing note on this key": a melodic voice found in the
\* map is set non-looping and removed from the map; a drum is left alone.
HandleExisting(ae, key) ==
    LET e == ae.activeNotes[key] IN
    IF e # NoVoice /\ ~VoiceOf(ae.voices, e).isDrum
    THEN [ae EXCEPT !.voices = {IF v.id = e THEN [v EXCEPT !.loop = FALSE] ELSE v : v \in ae.voices},
                    !.activeNotes = [ae.activeNotes EXCEPT ![key] = NoVoice]]
    ELSE ae

\* playNote after `await loadSample` returned a buffer: create and start the
\* source, schedule its stop, register it.
StartVoice(ae, c, t) ==
    LET startTime == IF c.when # 0 THEN c.when ELSE t
        isDrum == IsDrumName(c.sampleName)
        id == NewId(ae.voices)
        scheduled == c.duration > 0 /\ ~isDrum
        v == [id |-> id, key |-> c.key, isDrum |-> isDrum, loop |-> ~isDrum,
              start |-> startTime, hasStop |-> scheduled,
              stop |-> IF scheduled THEN startTime + c.duration ELSE 0]
        withVoice == [ae EXCEPT !.voices = ae.voices \cup {v},
                                !.loadedSamples = ae.loadedSamples \cup {c.sampleName}]
    IN IF scheduled
       THEN withVoice
       ELSE [withVoice EXCEPT
                !.activeNotes = IF isDrum THEN ae.activeNotes
                                ELSE [ae.activeNotes EXCEPT ![c.key] = id],
                !.glissNote = IF c.isGlissando THEN id ELSE ae.glissNote,
                !.glissKey = IF c.isGlissando THEN c.key ELSE ae.glissKey]

\* playNote up to the point where it is suspended or finished.
playNote(ae, wt, c, t) ==
    IF c.isGlissando /\ ae.glissNote # NoVoice
    THEN updateGlissandoPitch(ae, c.key)
    ELSE LET h == HandleExisting(ae, c.key) IN
         IF LoadsAtOnce(h, wt, c.sampleName)
         THEN StartVoice(h, c, t)
         ELSE [h EXCEPT !.pending =
                  Append(h.pending,
                         [c EXCEPT !.existing = IF h # ae THEN ae.activeNotes[c.key]
                                                ELSE NoVoice])]

\* stopNote without activeNotes.delete(keyNumber)
stopNote_keepEntry(ae, key, t) ==
    LET n == ae.activeNotes[key] IN
    IF n = NoVoice THEN ae
    ELSE [ae EXCEPT
            !.voices = {IF v.id = n
                        THEN [v EXCEPT !.hasStop = TRUE, !.stop = t + AUDIO_STOP_DELAY]
                        ELSE v : v \in ae.voices}]

\* stopNote
stopNote(ae, key, t) ==
    LET n == ae.activeNotes[key] IN
    IF n = NoVoice THEN ae
    ELSE [ae EXCEPT
            !.activeNotes = [ae.activeNotes EXCEPT ![key] = NoVoice],
            !.voices = {IF v.id = n
                        THEN [v EXCEPT !.hasStop = TRUE, !.stop = t + AUDIO_STOP_DELAY]
                        ELSE v : v \in ae.voices}]

\* stopNote with the try block's catch left out: what source.stop throws
\* leaves stopNote.
stopNoteThrowing_noCatch(ae, key, t, stopThrows, disconnectThrows) ==
    LET n == ae.activeNotes[key]
        deleted == [ae EXCEPT !.activeNotes = [ae.activeNotes EXCEPT ![key] = NoVoice]]
    IN IF n = NoVoice THEN [ae |-> ae, thrown |-> FALSE]
       ELSE IF stopThrows THEN [ae |-> deleted, thrown |-> TRUE]
       ELSE [ae |-> stopNote(ae, key, t), thrown |-> FALSE]

\* stopNote when the nodes may throw: source.stop throws (stopThrows) and
\* disconnect throws (disconnectThrows).  The entry is deleted before the try
\* block; what source.stop throws is caught and the nodes are disconnected at
\* once, what disconnect throws is caught in turn.  A disconnected source is
\* silent from then on.
stopNoteThrowing(ae, key, t, stopThrows, disconnectThrows) ==
    LET n == ae.activeNotes[key]
        deleted == [ae EXCEPT !.activeNotes = [ae.activeNotes EXCEPT ![key] = NoVoice]]
    IN IF n = NoVoice THEN [ae |-> ae, thrown |-> FALSE]
       ELSE IF ~stopThrows THEN [ae |-> stopNote(ae, key, t), thrown |-> FALSE]
       ELSE IF disconnectThrows THEN [ae |-> deleted, thrown |-> FALSE]
       ELSE [ae |-> [deleted EXCEPT
                        !.voices = {IF v.id = n
                                    THEN [v EXCEPT !.hasStop = TRUE, !.stop = t]
                                    ELSE v : v \in ae.voices}],
             thrown |-> FALSE]

RECURSIVE StopKeys(_, _, _)
StopKeys(ae, keys, t) ==
    IF keys = {} THEN ae
    ELSE LET k == CHOOSE x \in keys : \A y \in keys : x <= y
         IN StopKeys(stopNote(ae, k, t), keys \ {k}, t)

\* stopAllNotes: stopNote for every key of the map.
stopAllNotes(ae, t) ==
    StopKeys(ae, {k \in Keys : ae.activeNotes[k] # NoVoice}, t)

SetAE(ae) ==
    /\ activeNotes' = ae.activeNotes
    /\ voices' = ae.voices
    /\ pending' = ae.pending
    /\ loadedSamples' = ae.loadedSamples
    /\ currentGlissandoNote' = ae.glissNote
    /\ currentGlissandoKey' = ae.glissKey

Remove(s, i) == [j \in 1..(Len(s) - 1) |-> IF j < i THEN s[j] ELSE s[j + 1]]

\* ------------------------------------------------------------ loop wrap
Abs(a) == IF a < 0 THEN 0 - a ELSE a

\* JavaScript's a % b for b # 0: the remainder has the sign of the dividend.
JsRem(a, b) == LET r == Abs(a) % Abs(b) IN IF a < 0 THEN 0 - r ELSE r

\* The loop wrap without the loopStart offset
DisplayMeasure_noOffset(enabled, ls, le, m) ==
    IF enabled /\ m >= le
    THEN IF le - ls = 0 THEN NaN ELSE JsRem(m - ls, le - ls)
    ELSE m

\* scheduleNotes, "Handle looping": the measure whose notes are played when
\* the cursor is at schedule measure m.
DisplayMeasure(enabled, ls, le, m) ==
    IF enabled /\ m >= le
    THEN IF le - ls = 0 THEN NaN ELSE ls + JsRem(m - ls, le - ls)
    ELSE m

\* ------------------------------------------------------------ scheduler
\* The transport, scheduler and voice state the handlers work on.
Cur ==
    [isPlaying |-> isPlaying, isPaused |-> isPaused, currentMeasure |-> currentMeasure,
     enginePlaying |-> enginePlaying, scheduleTimeout |-> scheduleTimeout,
     timers |-> timers, sched |-> sched, ae |-> CurAE]

Set(s) ==
    /\ isPlaying' = s.isPlaying
    /\ isPaused' = s.isPaused
    /\ currentMeasure' = s.currentMeasure
    /\ enginePlaying' = s.enginePlaying
    /\ scheduleTimeout' = s.scheduleTimeout
    /\ timers' = s.timers
    /\ sched' = s.sched
    /\ SetAE(s.ae)

\* The bounds of the model, checked on the result of an operation.
WithinBounds(ae) ==
    /\ Cardinality(ae.voices) <= MaxVoices
    /\ Len(ae.pending) <= MaxPending

\* NoteManager.groupNotesByMeasure: the measure a note is filed under.
MeasureOf(note) == note.x \div MeasureWidth

\* NoteManager.getNotesInMeasures(startMeasure, endMeasure), both inclusive.
getNotesInMeasures(startMeasure, endMeasure) ==
    SelectSeq(Song, LAMBDA n : startMeasure <= MeasureOf(n) /\ MeasureOf(n) <= endMeasure)

\* The loop body without the hidden-track skip
RECURSIVE CallsFor_noHiddenSkip(_, _, _, _)
CallsFor_noHiddenSkip(notes, scheduleTime, displayMeasure, currentTime) ==
    IF notes = <<>> THEN <<>>
    ELSE LET note == Head(notes)
             measureStartX == displayMeasure * MeasureWidth
             noteOffsetTime == ((note.x - measureStartX) * measureDuration) \div MeasureWidth
             noteStartTime == scheduleTime + noteOffsetTime
             noteDuration == (note.width * measureDuration) \div MeasureWidth
             rest == CallsFor_noHiddenSkip(Tail(notes), scheduleTime, displayMeasure, currentTime)
         IN IF note.x >= measureStartX /\ note.x < measureStartX + MeasureWidth
               /\ noteStartTime >= currentTime
            THEN <<Call(note.key, note.instrument, FALSE, noteStartTime, noteDuration)>> \o rest
            ELSE rest

\* The loop body without the check noteStartTime >= currentTime
RECURSIVE CallsFor_noPastCheck(_, _, _, _)
CallsFor_noPastCheck(notes, scheduleTime, displayMeasure, currentTime) ==
    IF notes = <<>> THEN <<>>
    ELSE LET note == Head(notes)
             measureStartX == displayMeasure * MeasureWidth
             noteOffsetTime == ((note.x - measureStartX) * measureDuration) \div MeasureWidth
             noteStartTime == scheduleTime + noteOffsetTime
             noteDuration == (note.width * measureDuration) \div MeasureWidth
             rest == CallsFor_noPastCheck(Tail(notes), scheduleTime, displayMeasure, currentTime)
         IN IF note.instrument \in trackVisibility THEN rest
            ELSE IF note.x >= measureStartX /\ note.x < measureStartX + MeasureWidth
                 THEN <<Call(note.key, note.instrument, FALSE, noteStartTime, noteDuration)>> \o rest
                 ELSE rest

\* The loop body with the check noteStartTime > currentTime
RECURSIVE CallsFor_strictlyAhead(_, _, _, _)
CallsFor_strictlyAhead(notes, scheduleTime, displayMeasure, currentTime) ==
    IF notes = <<>> THEN <<>>
    ELSE LET note == Head(notes)
             measureStartX == displayMeasure * MeasureWidth
             noteOffsetTime == ((note.x - measureStartX) * measureDuration) \div MeasureWidth
             noteStartTime == scheduleTime + noteOffsetTime
             noteDuration == (note.width * measureDuration) \div MeasureWidth
             rest == CallsFor_strictlyAhead(Tail(notes), scheduleTime, displayMeasure,
                                            currentTime)
         IN IF note.instrument \in trackVisibility THEN rest
            ELSE IF note.x >= measureStartX /\ note.x < measureStartX + MeasureWidth
                    /\ noteStartTime > currentTime
                 THEN <<Call(note.key, note.instrument, FALSE, noteStartTime, noteDuration)>> \o rest
                 ELSE rest

\* scheduleNotes, the body of the while loop for one measure: the playNote
\* calls made with the cursor at (scheduleTime, scheduleMeasure).
RECURSIVE CallsFor(_, _, _, _)
CallsFor(notes, scheduleTime, displayMeasure, currentTime) ==
    IF notes = <<>> THEN <<>>
    ELSE LET note == Head(notes)
             measureStartX == displayMeasure * MeasureWidth
             noteOffsetTime == ((note.x - measureStartX) * measureDuration) \div MeasureWidth
             noteStartTime == scheduleTime + noteOffsetTime
             noteDuration == (note.width * measureDuration) \div MeasureWidth
             rest == CallsFor(Tail(notes), scheduleTime, displayMeasure, currentTime)
         IN IF note.instrument \in trackVisibility THEN rest
            ELSE IF note.x >= measureStartX /\ note.x < measureStartX + MeasureWidth
                    /\ noteStartTime >= currentTime
                 THEN <<Call(note.key, note.instrument, FALSE, noteStartTime, noteDuration)>> \o rest
                 ELSE rest

\* The scheduling pass with an `if` in place of the `while`: one measure per tick
Visits_oneMeasure(scheduleTime, scheduleMeasure, scheduleUntilTime) ==
    IF scheduleTime < scheduleUntilTime
    THEN <<[time |-> scheduleTime, measure |-> scheduleMeasure,
            display |-> DisplayMeasure(loopEnabled, loopStart, loopEnd, scheduleMeasure)]>>
    ELSE <<>>

\* scheduleNotes, the while loop: the measures visited from the cursor until
\* the lookahead is covered, as <<scheduleTime, scheduleMeasure, displayMeasure>>.
RECURSIVE Visits(_, _, _)
Visits(scheduleTime, scheduleMeasure, scheduleUntilTime) ==
    IF scheduleTime < scheduleUntilTime
    THEN <<[time |-> scheduleTime, measure |-> scheduleMeasure,
            display |-> DisplayMeasure(loopEnabled, loopStart, loopEnd, scheduleMeasure)]>>
         \o Visits(scheduleTime + measureDuration, scheduleMeasure + 1, scheduleUntilTime)
    ELSE <<>>

\* The playNote calls of one tick, made one after the other without awaiting.
\* A scheduled call (duration > 0) never writes activeNotes after its await,
\* so it does not matter that each call is completed here before the next.
RECURSIVE PlayCalls(_, _, _)
PlayCalls(ae, calls, currentTime) ==
    IF calls = <<>> THEN ae
    ELSE PlayCalls(playNote(ae, wavetable, Head(calls), currentTime), Tail(calls), currentTime)

RECURSIVE PlayVisits(_, _, _)
PlayVisits(ae, visits, currentTime) ==
    IF visits = <<>> THEN ae
    ELSE LET v == Head(visits)
             calls == CallsFor(getNotesInMeasures(v.display, v.display + 1),
                               v.time, v.display, currentTime)
         IN PlayVisits(PlayCalls(ae, calls, currentTime), Tail(visits), currentTime)

\* clearTimeout(id): the pending timer the handle refers to is cancelled; a
\* handle of a timer that has fired or was cleared cancels nothing.
clearTimeout(pendingTimers, id) ==
    LET at == {i \in 1..Len(pendingTimers) : pendingTimers[i] = id}
    IN IF at = {} THEN pendingTimers
       ELSE Remove(pendingTimers, CHOOSE i \in at : \A j \in at : i <= j)

\* "Schedule next update": if (this.scheduleTimeout) clearTimeout(...), then
\* this.scheduleTimeout = setTimeout(..., 50).
setTimeout(s, currentTime) ==
    [s EXCEPT !.timers = Append(clearTimeout(s.timers, s.scheduleTimeout),
                                currentTime + POLL_INTERVAL),
              !.scheduleTimeout = currentTime + POLL_INTERVAL]

\* scheduleNotes that does not remember the measure where it ended
scheduleNotes_measureForgotten(s, currentTime) ==
    LET c == IF s.sched.lastScheduledEndTime = 0
             THEN [playbackStartTime |-> currentTime,
                   playbackStartMeasure |-> s.currentMeasure,
                   lastScheduledEndTime |-> currentTime,
                   lastScheduledMeasure |-> s.currentMeasure]
             ELSE s.sched
        visits == Visits(c.lastScheduledEndTime, c.lastScheduledMeasure,
                         currentTime + LOOKAHEAD)
    IN setTimeout([s EXCEPT
          !.ae = PlayVisits(s.ae, visits, currentTime),
          !.sched = [c EXCEPT !.lastScheduledEndTime = @ + Len(visits) * measureDuration]],
          currentTime)

\* scheduleNotes (the reference scheduler): initialise the cursor if needed,
\* dispatch the notes of every measure up to the lookahead, remember the
\* cursor, re-arm the timer.
scheduleNotes(s, currentTime) ==
    LET c == IF s.sched.lastScheduledEndTime = 0
             THEN [playbackStartTime |-> currentTime,
                   playbackStartMeasure |-> s.currentMeasure,
                   lastScheduledEndTime |-> currentTime,
                   lastScheduledMeasure |-> s.currentMeasure]
             ELSE s.sched
        visits == Visits(c.lastScheduledEndTime, c.lastScheduledMeasure,
                         currentTime + LOOKAHEAD)
    IN setTimeout([s EXCEPT
          !.ae = PlayVisits(s.ae, visits, currentTime),
          !.sched = [c EXCEPT
                       !.lastScheduledEndTime = @ + Len(visits) * measureDuration,
                       !.lastScheduledMeasure = @ + Len(visits)]],
          currentTime)

\* PianoRoll.onMeasureChange (the engine's onMeasureChange callback)
onMeasureChange(s, measure) == [s EXCEPT !.currentMeasure = measure]

\* PianoRoll.onPlaybackStop (the engine's onStop callback)
onPlaybackStop(s) == [s EXCEPT !.isPlaying = FALSE, !.isPaused = FALSE]

\* The engine's scheduling tick: schedule, then report the measure the render
\* clock is in.
engineTick(s, currentTime) ==
    LET r == scheduleNotes(s, currentTime)
        elapsed == (currentTime - r.sched.playbackStartTime) \div measureDuration
    IN onMeasureChange(r, DisplayMeasure(loopEnabled, loopStart, loopEnd,
                                         r.sched.playbackStartMeasure + elapsed))

\* PlaybackEngine.play(fromMeasure): start the scheduler with a fresh cursor.
enginePlay(s, fromMeasure, currentTime) ==
    engineTick([s EXCEPT !.enginePlaying = TRUE,
                         !.currentMeasure = fromMeasure,
                         !.sched = [@ EXCEPT !.lastScheduledEndTime = 0,
                                             !.lastScheduledMeasure = fromMeasure]],
               currentTime)

\* pause() that drops the timer's handle without clearing the timer
enginePause_forgetsTimer(s) ==
    [s EXCEPT !.enginePlaying = FALSE, !.scheduleTimeout = NoTimer]

\* PlaybackEngine.pause(): cancel the pending scheduling timer, keep the cursor.
enginePause(s) ==
    [s EXCEPT !.enginePlaying = FALSE,
              !.timers = clearTimeout(@, s.scheduleTimeout),
              !.scheduleTimeout = NoTimer]

\* PlaybackEngine.stop(): cancel the timer, stop all voices, reset the cursor,
\* call onStop.
engineStop(s, currentTime) ==
    onPlaybackStop([s EXCEPT !.enginePlaying = FALSE,
                             !.timers = clearTimeout(@, s.scheduleTimeout),
                             !.scheduleTimeout = NoTimer,
                             !.ae = stopAllNotes(s.ae, currentTime),
                             !.sched = [@ EXCEPT !.lastScheduledEndTime = 0,
                                                 !.lastScheduledMeasure = 0]])

\* The scheduling timer's callback: if (this.isPlaying) this.scheduleNotes()
\* (`this` is the playback engine, which owns the scheduler).
timerCallback(s, currentTime) ==
    IF s.enginePlaying
    THEN engineTick(s, currentTime)
    ELSE [s EXCEPT !.scheduleTimeout = NoTimer]

\* ------------------------------------------------------------ transport
\* play that rewinds also when resuming from pause
play_alwaysRewind(s, currentTime) ==
    IF ~s.isPlaying
    THEN LET p == [s EXCEPT !.isPlaying = TRUE, !.currentMeasure = 0, !.isPaused = FALSE]
         IN enginePlay(p, p.currentMeasure, currentTime)
    ELSE s

\* PianoRoll.play
play(s, currentTime) ==
    IF ~s.isPlaying
    THEN LET p == [s EXCEPT !.isPlaying = TRUE,
                            !.currentMeasure = IF ~s.isPaused THEN 0 ELSE @,
                            !.isPaused = FALSE]
         IN enginePlay(p, p.currentMeasure, currentTime)
    ELSE s

\* pause without the isPlaying guard
pause_unguarded(s) ==
    enginePause([s EXCEPT !.isPaused = TRUE, !.isPlaying = FALSE])

\* pause that does not pause the playback engine
pause_engineRuns(s) ==
    IF s.isPlaying
    THEN [s EXCEPT !.isPaused = TRUE, !.isPlaying = FALSE]
    ELSE s

\* PianoRoll.pause
pause(s) ==
    IF s.isPlaying
    THEN enginePause([s EXCEPT !.isPaused = TRUE, !.isPlaying = FALSE])
    ELSE s

\* PianoRoll.stop
stop(s, currentTime) ==
    engineStop([s EXCEPT !.isPlaying = FALSE, !.isPaused = FALSE, !.currentMeasure = 0],
               currentTime)

\* ------------------------------------------------------------ pitch
Min(a, b) == IF a < b THEN a ELSE b
Max(a, b) == IF a > b THEN a ELSE b

\* Math.round(n / d) for d > 0: the nearest integer, a half rounded up.
MathRound(n, d) == (2 * n + d) \div (2 * d)

\* Base point frequencies for each pitch class (C through B)
basePointFreqs == <<33408, 35584, 37632, 39808, 42112, 44672,
                    47488, 50048, 52992, 56320, 59648, 63232>>

\* Period sizes for each octave
periodSizes_flatTop == <<1024, 512, 256, 128, 64, 32, 16, 16>>

periodSizes == <<1024, 512, 256, 128, 64, 32, 16, 8>>

\* A playback rate is a frequency, kept as the fraction num / den, times a
\* positive factor that `per` names: 256 / audioContext.sampleRate for a
\* melodic note, 1 / BASE_SAMPLE_RATE for a drum.
Rate(num, den, per) == [num |-> num, den |-> den, per |-> per]

\* calculatePlaybackRate(keyNumber, sampleName, isDrum, freqAdjust); the
\* sample name is not used.
calculatePlaybackRate(keyNumber, isDrum, freqAdjust) ==
    IF isDrum
    THEN LET drumKey == MathRound(keyNumber, 6)
             clampedKey == Max(0, Min(255, drumKey))
             drumFreq == clampedKey * 800 + 100
         IN Rate(drumFreq, 1, "1 / BASE_SAMPLE_RATE")
    ELSE LET octave == keyNumber \div NOTES_PER_OCTAVE
             microtonalPosition == JsRem(keyNumber, NOTES_PER_OCTAVE)
             pitchClassIndex == JsRem(MathRound(microtonalPosition, 6), 12)
             clampedOctave == Max(0, Min(7, octave))
             clampedPitchClass == Max(0, Min(11, pitchClassIndex))
             pointFrequency == basePointFreqs[clampedPitchClass + 1] + freqAdjust
         IN Rate(pointFrequency, periodSizes[clampedOctave + 1], "256 / sampleRate")

\* Two rates with the same factor, compared as fractions.
RateLeq(a, b) == a.per = b.per /\ a.num * b.den <= b.num * a.den
RatePositive(a) == a.num > 0 /\ a.den > 0

\* The keys of the piano roll: 0 .. NUM_OCTAVES * NOTES_PER_OCTAVE - 1
PianoKeys == 0..(NUM_OCTAVES * NOTES_PER_OCTAVE - 1)

\* ------------------------------------------------------------ actions
NotLoaded == "none"
NoRateCall == [called |-> FALSE, keyNumber |-> 0, isDrum |-> FALSE, freqAdjust |-> 0,
               rate |-> Rate(0, 1, "256 / sampleRate")]
NoImport == [parser |-> "none", key |-> 0, velocity |-> 0, pan6 |-> 0]
NoStopCall == [called |-> FALSE, flip |-> FALSE, key |-> 0, voice |-> NoVoice,
               stopThrows |-> FALSE, disconnectThrows |-> FALSE, thrown |-> FALSE]

\* The editor's grid: x and width of a note in subdivisions.
NoNote == 0
EditXs == PIANO_KEY_WIDTH..MaxEditX
EditWidths == 1..MaxEditWidth
EditMeasures == 0..((MaxEditX - PIANO_KEY_WIDTH) \div MeasureWidth)

\* NoteManager as constructed.
NoNotes == [notes |-> <<>>, selectedNotes |-> {},
            notesByMeasure |-> [measure \in EditMeasures |-> <<>>],
            needsNoteGrouping |-> TRUE]

\* InputHandler with no note under the mouse button.
NoDrag == [mode |-> "none", dragNote |-> NoNote, resizeDirection |-> "none",
           originalPositions |-> <<>>]

\* InputHandler with no mouse button down (its constructor, and onMouseUp's
\* "Reset all states"): currentPlayingKey null, lastGlissandoKey -1.
MouseUp == [isGlissando |-> FALSE, currentPlayingKey |-> NoKey, lastGlissandoKey |-> NoKey]

InitAudio ==
    /\ now = 0
    /\ wavetable \in BOOLEAN
    /\ loadedSamples = {}
    /\ voices = {}
    /\ activeNotes = [k \in Keys |-> NoVoice]
    /\ currentGlissandoNote = NoVoice
    /\ currentGlissandoKey = NoKey
    /\ pending = <<>>
    /\ drums = (IF wavetable THEN DrumTracks ELSE 0)
    /\ drumPos = [i \in 1..drums |-> i]
    /\ loadReturn = NotLoaded
    /\ loadedBlob = <<>>
    /\ rateCall = NoRateCall
    /\ stopCall = NoStopCall
    /\ sampleBuffers = [n \in Samples |-> NoBuffer]
    /\ loading = <<>>
    /\ decoded = 0
    /\ imported = NoImport
    /\ measuresCall = [called |-> FALSE, notes |-> <<>>, measures |-> 0]
    /\ programmed = [called |-> FALSE]
    /\ scan = [phase |-> "idle", length |-> 0, i |-> 0, top |-> 0, startPos |-> 0,
               riffLen |-> 0, found |-> 0]
    /\ mouse = MouseUp
    /\ noteManager = NoNotes
    /\ drag = NoDrag

\* No scheduling tick has run yet.
NoTick == [time |-> 0, firstTime |-> 0, firstMeasure |-> 0, visits |-> <<>>, calls |-> <<>>]

InitTransport ==
    /\ isPlaying = FALSE
    /\ isPaused = FALSE
    /\ currentMeasure = 0
    /\ currentSample = ORG_M00
    /\ previewNotes = {}
    /\ enginePlaying = FALSE
    /\ scheduleTimeout = NoTimer
    /\ timers = <<>>
    /\ sched = [playbackStartTime |-> 0, playbackStartMeasure |-> 0,
                lastScheduledEndTime |-> 0, lastScheduledMeasure |-> 0]
    /\ trackVisibility = {}
    /\ lastTick = NoTick

\* The loop windows a song is played with: the default, and a loop of two measures.
LoopWindows == { <<FALSE, 0, DefaultMeasures>>, <<TRUE, 0, 2>> }

Init ==
    /\ InitAudio
    /\ InitTransport
    /\ \E w \in LoopWindows : loopEnabled = w[1] /\ loopStart = w[2] /\ loopEnd = w[3]
    /\ displayedMeasure = 0

\* The render clock advances; sources that have ended and that nothing refers
\* to any more are collected.
Tick ==
    /\ now < MaxTime
    /\ now' = now + 1
    /\ voices' = {v \in voices :
                    \/ ~Ended(v, now + 1)
                    \/ v.id \in Referenced(activeNotes, currentGlissandoNote)}
    /\ UNCHANGED <<wavetable, loadedSamples, activeNotes, currentGlissandoNote,
                   currentGlissandoKey, pending>>
    /\ UNCHANGED <<transportVars, previewVars, loopVars, trackVisibility, lastTick,
                   storeVars, callVars>>

\* The fetch of loadSample ends and the suspended playNote goes on: with a
\* buffer it starts its voice, with null it returns.
ResumePlayNote ==
    \E i \in 1..Len(pending), ok \in BOOLEAN :
        LET c == pending[i]
            rest == [CurAE EXCEPT !.pending = Remove(pending, i)]
            r == IF ok THEN StartVoice(rest, c, now) ELSE rest
        IN /\ WithinBounds(r)
           /\ SetAE(r)
           /\ UNCHANGED <<now, wavetable, transportVars, previewVars, loopVars, trackVisibility, lastTick,
                   storeVars, callVars>>

Play ==
    LET r == play(Cur, now) IN
    /\ WithinBounds(r.ae)
    /\ Set(r)
    /\ UNCHANGED <<now, wavetable, previewVars, loopVars, trackVisibility, lastTick,
                   storeVars, callVars>>

Pause ==
    /\ Set(pause(Cur))
    /\ UNCHANGED <<now, wavetable, previewVars, loopVars, trackVisibility, lastTick,
                   storeVars, callVars>>

Stop ==
    /\ Set(stop(Cur, now))
    /\ UNCHANGED <<now, wavetable, previewVars, loopVars, trackVisibility, lastTick,
                   storeVars, callVars>>

\* A pending timer fires, at its due time or later.
TimerFire ==
    /\ \E i \in 1..Len(timers) :
        /\ now >= timers[i]
        /\ LET r == timerCallback([Cur EXCEPT !.timers = Remove(timers, i)], now) IN
            /\ WithinBounds(r.ae)
            /\ Set(r)
    /\ UNCHANGED <<now, wavetable, previewVars, loopVars, trackVisibility, lastTick,
                   storeVars, callVars>>

\* PianoRoll.playPianoKey (a key of the MIDI keyboard goes down)
PlayPianoKey ==
    \E key \in Keys :
        LET r == playNote(CurAE, wavetable, Call(key, currentSample, FALSE, 0, 0), now) IN
        /\ WithinBounds(r)
        /\ SetAE(r)
        /\ previewNotes' = previewNotes \cup {key}
        /\ UNCHANGED <<now, wavetable, transportVars, currentSample, loopVars, trackVisibility, lastTick,
                   storeVars, callVars>>

\* PianoRoll.stopPianoKey (the key goes up)
StopPianoKey ==
    \E key \in previewNotes :
        /\ SetAE(stopNote(CurAE, key, now))
        /\ previewNotes' = previewNotes \ {key}
        /\ UNCHANGED <<now, wavetable, transportVars, currentSample, loopVars, trackVisibility, lastTick,
                   storeVars, callVars>>

\* The last measure that holds a note of the song.
LastMeasure == MeasureOf(Song[Len(Song)])

\* The engine has scheduled the whole song (no loop) and stops by itself:
\* it stops as in stop() and calls onStop; PianoRoll.currentMeasure stays.
EngineEnd ==
    /\ enginePlaying
    /\ ~loopEnabled
    /\ sched.lastScheduledMeasure > LastMeasure
    /\ Set(engineStop(Cur, now))
    /\ UNCHANGED <<now, wavetable, previewVars, loopVars, trackVisibility, lastTick,
                   storeVars, callVars>>

Next ==
    \/ Tick
    \/ Play
    \/ Pause
    \/ Stop
    \/ TimerFire
    \/ EngineEnd
    \/ ResumePlayNote
    \/ PlayPianoKey
    \/ StopPianoKey

Spec == Init /\ [][Next]_vars

\* ------------------------------------------------------------ AudioEngine API
\* The AudioEngine methods called directly, as the editor's mouse and keyboard
\* handlers and the scheduler call them, with the wavetable loaded.
InitVoice ==
    /\ InitAudio
    /\ wavetable = TRUE
    /\ InitTransport
    /\ loopEnabled = FALSE /\ loopStart = 0 /\ loopEnd = DefaultMeasures
    /\ displayedMeasure = 0

\* The start times and durations handed to playNote: now (when = 0) or one
\* unit ahead; held (duration = 0) or lasting MaxDuration.
Whens == {0, now + 1}
Durations == {0, MaxDuration}

PlayNote ==
    \E key \in Keys, sampleName \in Samples, isGlissando \in BOOLEAN,
       when \in Whens, duration \in Durations :
        LET r == playNote(CurAE, wavetable,
                          Call(key, sampleName, isGlissando, when, duration), now) IN
        /\ WithinBounds(r)
        /\ SetAE(r)
        /\ UNCHANGED <<now, wavetable, transportVars, previewVars, loopVars, trackVisibility, lastTick,
                   storeVars, callVars>>

StopNote ==
    \E key \in Keys :
        /\ SetAE(stopNote(CurAE, key, now))
        /\ UNCHANGED <<now, wavetable, transportVars, previewVars, loopVars, trackVisibility, lastTick,
                   storeVars, callVars>>

StopAllNotes ==
    /\ SetAE(stopAllNotes(CurAE, now))
    /\ UNCHANGED <<now, wavetable, transportVars, previewVars, loopVars, trackVisibility, lastTick,
                   storeVars, callVars>>

NextVoice ==
    \/ Tick
    \/ PlayNote
    \/ StopNote
    \/ StopAllNotes

SpecVoice == InitVoice /\ [][NextVoice]_vars

\* ------------------------------------------------------------ voice teardown
\* stopNote on voices whose nodes may throw (a source that was stopped or
\* disconnected before), between the preview notes of the piano keys.
StopNoteThrowing ==
    \E key \in Keys, stopThrows \in BOOLEAN, disconnectThrows \in BOOLEAN :
        LET r == stopNoteThrowing(CurAE, key, now, stopThrows, disconnectThrows) IN
        /\ SetAE(r.ae)
        /\ stopCall' = [called |-> TRUE, flip |-> ~stopCall.flip, key |-> key,
                        voice |-> activeNotes[key], stopThrows |-> stopThrows,
                        disconnectThrows |-> disconnectThrows, thrown |-> r.thrown]
        /\ UNCHANGED <<now, wavetable, transportVars, previewVars, loopVars,
                       trackVisibility, lastTick, storeVars, rateCall, imported,
                       measuresCall, programmed, workVars>>

NextTeardown ==
    \/ Tick
    \/ PlayPianoKey
    \/ StopNoteThrowing

SpecTeardown == InitVoice /\ [][NextTeardown]_vars

\* ------------------------------------------------------------ pitch calls
\* calculatePlaybackRate as playNote and updateGlissandoPitch call it, on keys
\* inside and outside the piano roll.
KeyInputs == (0 - MaxOutside)..(NUM_OCTAVES * NOTES_PER_OCTAVE - 1 + MaxOutside)
FreqAdjusts == {0, 100}

CalculatePlaybackRate ==
    \E keyNumber \in KeyInputs, isDrum \in BOOLEAN, freqAdjust \in FreqAdjusts :
        /\ rateCall' = [called |-> TRUE, keyNumber |-> keyNumber, isDrum |-> isDrum,
                        freqAdjust |-> freqAdjust,
                        rate |-> calculatePlaybackRate(keyNumber, isDrum, freqAdjust)]
        /\ UNCHANGED <<now, audioVars, transportVars, previewVars, loopVars,
                       trackVisibility, lastTick, storeVars, stopCall, imported,
                       measuresCall, programmed, workVars>>

NextPitch == CalculatePlaybackRate

SpecPitch == InitVoice /\ [][NextPitch]_vars

\* ------------------------------------------------------------ wavetable store
\* The drum part of wavetable.bin, after the 100 melodic waves: a sequence of
\* WAVE records.  "drum" is a complete mono PCM record with a data chunk,
\* "skipped" a record the parser passes over (not 'fmt ', not PCM, not mono,
\* or without a data chunk),
\* "cut" a record the blob ends in: view.getUint32 / getUint16 past the end
\* of the buffer throws a RangeError.
Records == {"drum", "skipped", "cut"}
BlobsUpTo(records) ==
    {b \in UNION {[1..n -> Records] : n \in 0..records} :
        \A i \in 1..Len(b) : b[i] = "cut" => i = Len(b)}
Blobs == BlobsUpTo(MaxRecords)

\* The scan that pushes every record it reads, skipped ones too.
RECURSIVE parseDrums_pushAll(_, _, _)
parseDrums_pushAll(blob, pos, found) ==
    IF blob = <<>> THEN [entries |-> found, threw |-> FALSE]
    ELSE IF Head(blob) = "cut" THEN [entries |-> found, threw |-> TRUE]
    ELSE parseDrums_pushAll(Tail(blob), pos + 1, Append(found, pos))

\* loadWavetable, "Parse drum data": the scan goes up the file and does
\* this.drums.push({filePos, ...}) for every drum found; `pos` is the ordinal
\* of the record at the head of what is left of the blob.
RECURSIVE parseDrums(_, _, _)
parseDrums(blob, pos, found) ==
    IF blob = <<>> THEN [entries |-> found, threw |-> FALSE]
    ELSE IF Head(blob) = "drum" THEN parseDrums(Tail(blob), pos + 1, Append(found, pos))
    ELSE IF Head(blob) = "skipped" THEN parseDrums(Tail(blob), pos + 1, found)
    ELSE [entries |-> found, threw |-> TRUE]

\* loadWavetable: `fetched` says whether fetch and arrayBuffer resolved.
loadWavetable(store, fetched, blob) ==
    IF ~fetched
    THEN [wavetable |-> store.wavetable, drums |-> store.drums,
          drumPos |-> store.drumPos, returned |-> "false"]
    ELSE LET parsed == parseDrums(blob, 1, <<>>) IN
         [wavetable |-> TRUE, drums |-> Len(parsed.entries), drumPos |-> parsed.entries,
          returned |-> IF parsed.threw THEN "false" ELSE "true"]

\* getSampleList without the test i < MAX_DRUMS
getSampleList_uncapped(wt, dr) ==
    [drumSamples |-> [i \in 1..(IF wt THEN dr ELSE MAX_DRUMS) |->
                        [kind |-> "D", index |-> i - 1]],
     melodicSamples |-> [i \in 1..100 |-> [kind |-> "M", index |-> i - 1]]]

\* getSampleList: the names 'ORG_D00'.. and 'ORG_M00'..'ORG_M99'
getSampleList(wt, dr) ==
    [drumSamples |-> [i \in 1..(IF wt THEN Min(dr, MAX_DRUMS) ELSE MAX_DRUMS) |->
                        [kind |-> "D", index |-> i - 1]],
     melodicSamples |-> [i \in 1..100 |-> [kind |-> "M", index |-> i - 1]]]

\* Sample names that are no wave of the wavetable: 'ORG_M100', and 'M00'
\* (neither 'ORG_M..' nor 'ORG_D..').
ORG_M100 == [kind |-> "M", index |-> 100]
M00 == [kind |-> "other", index |-> 0]
NoInstrument == [kind |-> "undefined", index |-> 0]

\* OrgParser.getInstrumentName(instrumentNum, trackIndex)
getInstrumentName(instrumentNum, trackIndex) ==
    IF trackIndex < 8 /\ instrumentNum <= 99
    THEN [kind |-> "M", index |-> instrumentNum]
    ELSE IF trackIndex >= 8 /\ trackIndex - 8 < 6
    THEN [kind |-> "D", index |-> trackIndex - 8]
    ELSE ORG_M00

\* importFromJSON: instrument: noteData.instrument || 'M00'
jsonInstrument(instrument) == IF instrument = NoInstrument THEN M00 ELSE instrument

\* The instrument names of imported notes: of ORG tracks 0 (melodic), 8 and
\* 14 (drum tracks) with instrument numbers 0 and 100, and of JSON notes
\* without an instrument or with 'ORG_M100'.
InstrumentNames ==
    {getInstrumentName(n, t) : n \in {0, 100}, t \in {0, 8, 14}}
        \cup {jsonInstrument(x) : x \in {NoInstrument, ORG_M100}}

\* The engine as constructed: no wavetable, no drums.
InitStore ==
    /\ InitAudio
    /\ wavetable = FALSE
    /\ InitTransport
    /\ loopEnabled = FALSE /\ loopStart = 0 /\ loopEnd = DefaultMeasures
    /\ displayedMeasure = 0

LoadWavetableOf(blobs) ==
    \E fetched \in BOOLEAN, blob \in blobs :
        LET r == loadWavetable([wavetable |-> wavetable, drums |-> drums,
                                drumPos |-> drumPos], fetched, blob) IN
        /\ wavetable' = r.wavetable
        /\ drums' = r.drums
        /\ drumPos' = r.drumPos
        /\ loadReturn' = r.returned
        /\ loadedBlob' = (IF fetched THEN blob ELSE loadedBlob)
        /\ UNCHANGED <<now, loadedSamples, voices, activeNotes, currentGlissandoNote,
                       currentGlissandoKey, pending, transportVars, previewVars,
                       loopVars, trackVisibility, lastTick, callVars, cacheVars>>

LoadWavetable == LoadWavetableOf(Blobs)

\* scheduleNoteAtTime: playNote for a note of the song, with its instrument
\* and its duration.
ScheduleNoteAtTime ==
    \E sampleName \in InstrumentNames, when \in Whens :
        LET r == playNote(CurAE, wavetable,
                          Call(0, sampleName, FALSE, when, MaxDuration), now) IN
        /\ WithinBounds(r)
        /\ SetAE(r)
        /\ UNCHANGED <<now, wavetable, transportVars, previewVars, loopVars,
                       trackVisibility, lastTick, storeVars, callVars>>

NextStore ==
    \/ LoadWavetable
    \/ ScheduleNoteAtTime
    \/ ResumePlayNote

SpecStore == InitStore /\ [][NextStore]_vars

\* ------------------------------------------------------------ drum bank
\* loadWavetable on blobs with more WAVE records than MAX_DRUMS.
LoadDrumBank == LoadWavetableOf(BlobsUpTo(MaxBankRecords))

SpecBank == InitStore /\ [][LoadDrumBank]_vars

\* ------------------------------------------------------------ sample cache
\* The cache as loadSample sees it.
Cache(sb, ld, dc) == [sampleBuffers |-> sb, loading |-> ld, decoded |-> dc]

CachedNames(c) == {n \in DOMAIN c.sampleBuffers : c.sampleBuffers[n] # NoBuffer}

\* createBuffer / decodeAudioData: a new buffer, then loadedSamples.set
CacheNewBuffer(c, sampleName) ==
    [c EXCEPT !.decoded = c.decoded + 1,
              !.sampleBuffers = [c.sampleBuffers EXCEPT ![sampleName] = c.decoded + 1]]

\* loadSample up to its return or to `await fetch`: the cached buffer is
\* returned, or a buffer is built from the wavetable and cached, or the call
\* is suspended at the fetch.
loadSample(c, wt, sampleName) ==
    IF sampleName \in CachedNames(c) THEN c
    ELSE IF LoadsAtOnce([loadedSamples |-> CachedNames(c)], wt, sampleName)
    THEN CacheNewBuffer(c, sampleName)
    ELSE [c EXCEPT !.loading = Append(c.loading, sampleName)]

\* loadSample after its awaits: the decoded buffer is cached and returned
\* (ok), or fetch / decodeAudioData threw and null is returned.
loadSampleResumed(c, i, ok) ==
    LET rest == [c EXCEPT !.loading = Remove(c.loading, i)] IN
    IF ok THEN CacheNewBuffer(rest, c.loading[i]) ELSE rest

SetCache(c) ==
    /\ sampleBuffers' = c.sampleBuffers
    /\ loading' = c.loading
    /\ decoded' = c.decoded
    /\ loadedSamples' = CachedNames(c)

CacheFrame ==
    UNCHANGED <<now, wavetable, voices, activeNotes, currentGlissandoNote,
                currentGlissandoKey, pending, transportVars, previewVars, loopVars,
                trackVisibility, lastTick, drums, drumPos, loadReturn, loadedBlob,
                callVars>>

LoadSample ==
    \E sampleName \in Samples :
        LET r == loadSample(Cache(sampleBuffers, loading, decoded), wavetable, sampleName) IN
        /\ Len(r.loading) <= MaxLoading
        /\ r.decoded <= MaxBuffers
        /\ SetCache(r)
        /\ CacheFrame

LoadSampleResumed ==
    \E i \in 1..Len(loading), ok \in BOOLEAN :
        LET r == loadSampleResumed(Cache(sampleBuffers, loading, decoded), i, ok) IN
        /\ r.decoded <= MaxBuffers
        /\ SetCache(r)
        /\ CacheFrame

\* The engine with or without its wavetable.
InitCache ==
    /\ InitAudio
    /\ InitTransport
    /\ loopEnabled = FALSE /\ loopStart = 0 /\ loopEnd = DefaultMeasures
    /\ displayedMeasure = 0

NextCache ==
    \/ LoadWavetable
    \/ LoadSample
    \/ LoadSampleResumed

SpecCache == InitCache /\ [][NextCache]_vars

\* JavaScript's null and undefined
Null == 0 - 1

\* ------------------------------------------------------------ importers
\* The bytes an ORG or MIDI file carries for a note are drawn from the ends
\* of the byte range, the ends of the nominal ranges and their neighbours.

\* OrgParser.convertToNotes, the conversion of one note that readAllTracks
\* kept (any key byte but 255); pan6 is six times the pan, which the code
\* leaves a fraction.
orgNote(note) ==
    LET ORG_MAX_KEY == 95
        NOTES_PER_SEMITONE == 6
        convertKeyTo72edo(orgKey) ==
            IF orgKey > ORG_MAX_KEY THEN 0
            ELSE (orgKey \div 12) * NOTES_PER_OCTAVE + (orgKey % 12) * NOTES_PER_SEMITONE
    IN [parser |-> "org",
        key |-> convertKeyTo72edo(note.key),
        velocity |-> MathRound(note.volume, 2),
        pan6 |-> IF note.pan # 255 /\ note.pan <= 12 THEN (note.pan - 6) * 100 ELSE 0]

\* MidiParser.convertToNotes, the conversion of one note-on / note-off pair:
\* first says that the note is the first of its track and channel, program
\* is the channel's program change, if any, octaveShift the transposition.
midiNote(noteStart, program, first, octaveShift) ==
    LET NOTES_PER_SEMITONE == 6
        midiNoteTo72edo(n) ==
            LET octave == IF n < 12 THEN 0
                          ELSE IF n >= 108 THEN 7
                          ELSE (n - 12) \div 12
                key72 == octave * NOTES_PER_OCTAVE + JsRem(n, 12) * NOTES_PER_SEMITONE
                maxKey == NUM_OCTAVES * NOTES_PER_OCTAVE - 1
            IN Max(0, Min(maxKey, key72))
        \* the tables' entries in hundredths, 1.0 and 0 for a missing entry
        getVelocityScale(p) == IF p = 0 THEN 85 ELSE IF p = 32 THEN 140
                               ELSE IF p = 40 THEN 90 ELSE 100
        getOrchestralPan(p) == IF p = 0 THEN 0 ELSE IF p = 32 THEN 60
                               ELSE IF p = 40 THEN 0 - 80 ELSE 0
        scaled(v) == Min(127, MathRound(v * getVelocityScale(program), 100))
        velocity == noteStart.velocity
    IN [parser |-> "midi",
        key |-> midiNoteTo72edo(noteStart.midiNote + octaveShift * 12),
        velocity |-> IF noteStart.channel = 9 \/ program = Null THEN velocity
                     ELSE IF first THEN scaled(scaled(velocity))
                     ELSE scaled(velocity),
        pan6 |-> IF noteStart.channel = 9 \/ program = Null THEN 0
                 ELSE 6 * getOrchestralPan(program)]

\* OrgParser.convertToNotes on a note of a parsed file
OrgConvertToNotes ==
    \E key \in {0, 11, 12, 47, 95, 96, 254},
       volume \in {0, 1, 100, 253, 254, 255},
       pan \in {0, 1, 6, 12, 13, 254, 255} :
        /\ imported' = orgNote([key |-> key, volume |-> volume, pan |-> pan])
        /\ UNCHANGED <<now, audioVars, transportVars, previewVars, loopVars,
                       trackVisibility, lastTick, storeVars, rateCall, stopCall,
                       measuresCall, programmed, workVars>>

\* MidiParser.convertToNotes on a note-on event of a parsed file; the parser
\* turns a note-on of velocity 0 into a note-off.
MidiConvertToNotes ==
    \E n \in {0, 11, 12, 60, 107, 108, 127},
       velocity \in {1, 64, 100, 127, 128, 255}, channel \in {0, 9},
       program \in {Null, 0, 32, 40}, first \in BOOLEAN, octaveShift \in {0 - 1, 0, 1} :
        /\ imported' = midiNote([midiNote |-> n, velocity |-> velocity,
                                 channel |-> channel], program, first, octaveShift)
        /\ UNCHANGED <<now, audioVars, transportVars, previewVars, loopVars,
                       trackVisibility, lastTick, storeVars, rateCall, stopCall,
                       measuresCall, programmed, workVars>>

SpecImport == InitVoice /\ [][OrgConvertToNotes \/ MidiConvertToNotes]_vars

\* ------------------------------------------------------------ drum scan
\* The drum scan of loadWavetable, an iteration at a time. The bytes the scan
\* reads may be anything: whether a word is 'WAVE', 'fmt ' or 'data' and what
\* riffLen and chunkSize hold is open at every read. A DataView read that
\* reaches past the end of the blob throws, and loadWavetable returns false.

\* i = startPos + riffLen
skipTo_fromFileStart(startPos, riffLen) == riffLen

skipTo(startPos, riffLen) == startPos + riffLen

\* loadWavetable up to the first test of the for loop, on a blob of
\* 256 * 100 bytes of waves and up to MaxBlob bytes after them
ScanStart ==
    /\ scan.phase \in {"idle", "done", "threw"}
    /\ \E extra \in 0..MaxBlob :
          scan' = [phase |-> "outer", length |-> 256 * 100 + extra, i |-> 256 * 100,
                   top |-> 256 * 100, startPos |-> 0, riffLen |-> 0, found |-> 0]
    /\ UNCHANGED <<now, audioVars, transportVars, previewVars, loopVars,
                   trackVisibility, lastTick, storeVars, rateCall, stopCall,
                   imported, measuresCall, programmed, mouse, editVars>>

\* One iteration of the for loop, up to its continue, to the start of the
\* data-chunk search, or to the end of the loop when its test fails
ScanOuter ==
    /\ scan.phase = "outer"
    /\ LET i == scan.i
           Again(next) == [scan EXCEPT !.i = next + 1, !.top = next + 1]
           Readable(pos, size) == pos + size <= scan.length
           startPos == i + 12
       IN IF ~(i < scan.length - 4)
          THEN scan' = [scan EXCEPT !.phase = "done"]
          ELSE \E isWave \in BOOLEAN, isFmt \in BOOLEAN, riffLen \in {0, 16, MaxBlob},
                  isPcm \in BOOLEAN, isMono \in BOOLEAN :
                 scan' = IF ~isWave THEN Again(i)
                         ELSE IF ~Readable(i + 4, 4) \/ ~Readable(i + 8, 4)
                              THEN [scan EXCEPT !.phase = "threw"]
                         ELSE IF ~isFmt THEN Again(startPos)
                         ELSE IF ~Readable(startPos, 2) THEN [scan EXCEPT !.phase = "threw"]
                         ELSE IF ~isPcm THEN Again(skipTo(startPos, riffLen))
                         ELSE IF ~Readable(startPos + 2, 2)
                              THEN [scan EXCEPT !.phase = "threw"]
                         ELSE IF ~isMono THEN Again(skipTo(startPos, riffLen))
                         ELSE IF ~Readable(startPos + 4, 4) \/ ~Readable(startPos + 14, 2)
                              THEN [scan EXCEPT !.phase = "threw"]
                         ELSE [scan EXCEPT !.phase = "inner", !.i = startPos + 16,
                                           !.startPos = startPos, !.riffLen = riffLen]
    /\ UNCHANGED <<now, audioVars, transportVars, previewVars, loopVars,
                   trackVisibility, lastTick, storeVars, rateCall, stopCall,
                   imported, measuresCall, programmed, mouse, editVars>>

\* One iteration of the while loop that looks for the data chunk; when the
\* loop ends, by its test or by break, the for loop's iteration is finished:
\* i = startPos + riffLen + 8, then i++
ScanInner ==
    /\ scan.phase = "inner"
    /\ LET i == scan.i
           next == skipTo(scan.startPos, scan.riffLen) + 8 + 1
           Leave(found) == [scan EXCEPT !.phase = "outer", !.i = next, !.top = next,
                                        !.found = found]
       IN IF ~(i < scan.length - 8)
          THEN scan' = Leave(scan.found)
          ELSE \E isData \in BOOLEAN, chunkSize \in {0, 1, MaxBlob} :
                 scan' = IF isData THEN Leave(scan.found + 1)
                         ELSE [scan EXCEPT !.i = i + 8 + chunkSize]
    /\ UNCHANGED <<now, audioVars, transportVars, previewVars, loopVars,
                   trackVisibility, lastTick, storeVars, rateCall, stopCall,
                   imported, measuresCall, programmed, mouse, editVars>>

\* The loops run on without interruption once loadWavetable has its blob.
SpecScan ==
    /\ InitVoice
    /\ [][ScanStart \/ ScanOuter \/ ScanInner]_vars
    /\ WF_vars(ScanOuter \/ ScanInner)

\* ------------------------------------------------------------ voice programming
\* What one playNote call programs on the source, gain and panner nodes of
\* its voice. Times are in units of 10 microseconds (100000 to the second).

\* [...list].sort((a, b) => a.tick - b.tick): a stable sort by tick
RECURSIVE SortByTick(_)
SortByTick(list) ==
    IF Len(list) <= 1 THEN list
    ELSE LET rest == SortByTick(Tail(list))
             before == SelectSeq(rest, LAMBDA p : p.tick < Head(list).tick)
             after == SelectSeq(rest, LAMBDA p : p.tick >= Head(list).tick)
         IN before \o <<Head(list)>> \o after

\* The sort works on a spread copy: the caller's array is left as it was.
spreadSort_inPlace(list) == [array |-> SortByTick(list), sorted |-> SortByTick(list)]

spreadSort(list) == [array |-> list, sorted |-> SortByTick(list)]

\* tickDuration || (duration / Math.max(...sorted.map(p => p.tick), 1))
actualTickDuration(tickDuration, duration, sorted) ==
    IF tickDuration # Null /\ tickDuration # 0 THEN tickDuration
    ELSE duration \div Max(sorted[Len(sorted)].tick, 1)

\* An event of an AudioParam's timeline; point is the index of the sorted
\* breakpoint it carries the value of, 0 when it carries another value.
ParamEvent(method, time, point, value) ==
    [method |-> method, time |-> time, point |-> point, value |-> value]

\* "Apply volume automation if provided", which sits in the melodic branch:
\* the first point is a ramp from an anchor set 0.001 s earlier at
\* gain.gain.value, the later points are instant changes.
volumeEvents_drumsToo(isDrum, startTime, duration, tickDuration, list) ==
    IF ~list.given \/ Len(list.points) = 0 THEN <<>>
    ELSE LET sorted == spreadSort(list.points).sorted
             spt == actualTickDuration(tickDuration, duration, sorted)
             time(i) == startTime + sorted[i].tick * spt
         IN <<ParamEvent("setValueAtTime", time(1) - 100, 0, "gain.gain.value"),
              ParamEvent("linearRampToValueAtTime", time(1), 1, sorted[1].volume)>>
            \o [i \in 1..(Len(sorted) - 1) |->
                    ParamEvent("setValueAtTime", time(i + 1), i + 1, sorted[i + 1].volume)]

volumeEvents(isDrum, startTime, duration, tickDuration, list) ==
    IF isDrum \/ ~list.given \/ Len(list.points) = 0 THEN <<>>
    ELSE LET sorted == spreadSort(list.points).sorted
             spt == actualTickDuration(tickDuration, duration, sorted)
             time(i) == startTime + sorted[i].tick * spt
         IN <<ParamEvent("setValueAtTime", time(1) - 100, 0, "gain.gain.value"),
              ParamEvent("linearRampToValueAtTime", time(1), 1, sorted[1].volume)>>
            \o [i \in 1..(Len(sorted) - 1) |->
                    ParamEvent("setValueAtTime", time(i + 1), i + 1, sorted[i + 1].volume)]

\* "Apply pan automation if provided", in the melodic branch as well
panEvents(isDrum, startTime, duration, tickDuration, list) ==
    IF isDrum \/ ~list.given \/ Len(list.points) = 0 THEN <<>>
    ELSE LET sorted == spreadSort(list.points).sorted
             spt == actualTickDuration(tickDuration, duration, sorted)
         IN [i \in 1..Len(sorted) |->
                ParamEvent("linearRampToValueAtTime", startTime + sorted[i].tick * spt,
                           i, sorted[i].pan)]

\* "Schedule stop if duration provided": the time handed to source.stop
stopTime_atStart(startTime, duration) == startTime

stopTime(startTime, duration) == startTime + duration

\* playNote from `const startTime` on, for a sample whose buffer loadSample
\* returned. An AudioParam method given a negative time throws a RangeError,
\* source.stop on a source that was not started throws an InvalidStateError;
\* either ends the call there, before source.start.
playNoteVoice(c, currentTime) ==
    LET startTime == IF c.when # 0 THEN c.when ELSE currentTime
        isDrum == IsDrumName(c.sampleName)
        actualPipi == IF c.pipi # Null THEN c.pipi ELSE 0
        octave == c.keyNumber \div NOTES_PER_OCTAVE
        octSizes == <<4, 8, 12, 16, 20, 24, 28, 32>>
        numLoops == octSizes[Min(octave, 7) + 1] * actualPipi
        playbackRate == calculatePlaybackRate(c.keyNumber, FALSE, c.freqAdjust)
        \* (256 * numLoops) / (sampleRate * playbackRate), the rate being
        \* (num / den) * 256 / sampleRate
        loopDuration == (numLoops * playbackRate.den * 100000) \div playbackRate.num
        cutsOff == ~isDrum /\ actualPipi > 0 /\ loopDuration < c.duration
        initial == <<ParamEvent("setValueAtTime", startTime, 0, "authenticVolume")>>
        volume == volumeEvents(isDrum, startTime, c.duration, c.tickDuration,
                               c.volumeAutomation)
        pans == panEvents(isDrum, startTime, c.duration, c.tickDuration, c.panAutomation)
        rangeError == volume # <<>> /\ volume[1].time < 0
        scheduled == c.duration > 0 /\ ~isDrum
        after == [c EXCEPT
                    !.volumeAutomation =
                        IF isDrum \/ ~c.volumeAutomation.given \/ cutsOff
                        THEN c.volumeAutomation
                        ELSE [c.volumeAutomation EXCEPT
                                 !.points = spreadSort(c.volumeAutomation.points).array],
                    !.panAutomation =
                        IF isDrum \/ ~c.panAutomation.given \/ cutsOff \/ rangeError
                        THEN c.panAutomation
                        ELSE [c.panAutomation EXCEPT
                                 !.points = spreadSort(c.panAutomation.points).array]]
    IN IF cutsOff
       THEN [called |-> TRUE, given |-> c, after |-> after, thrown |-> "InvalidStateError",
             started |-> FALSE, startTime |-> startTime, loop |-> TRUE,
             gainEvents |-> <<ParamEvent("setValueAtTime", startTime + loopDuration, 0, "0")>>,
             panEvents |-> <<>>, stops |-> <<>>]
       ELSE IF rangeError
       THEN [called |-> TRUE, given |-> c, after |-> after, thrown |-> "RangeError",
             started |-> FALSE, startTime |-> startTime, loop |-> TRUE,
             gainEvents |-> initial, panEvents |-> <<>>, stops |-> <<>>]
       ELSE [called |-> TRUE, given |-> c, after |-> after, thrown |-> "none",
             started |-> TRUE, startTime |-> startTime, loop |-> ~isDrum,
             gainEvents |-> initial \o volume \o
                            (IF scheduled
                             THEN <<ParamEvent("setValueAtTime",
                                               stopTime(startTime, c.duration), 0, "0")>>
                             ELSE <<>>),
             panEvents |-> pans,
             stops |-> IF scheduled THEN <<stopTime(startTime, c.duration)>> ELSE <<>>]

\* The breakpoint lists of a note: absent (null), empty, or up to MaxPoints
\* points at the given ticks in any order.
AutomationLists(field, ticks) ==
    LET Points == {[tick |-> t] @@ (field :> 10 * t + 40) : t \in ticks}
    IN {[given |-> FALSE, points |-> <<>>]}
       \cup {[given |-> TRUE, points |-> l] : l \in UNION {[1..n -> Points] : n \in 0..MaxPoints}}

\* A playNote call on a loaded sample: the bottom and the top key, a wave or
\* a drum, now or one second ahead, held or lasting 0.05 s or 0.5 s, the
\* looping modes, with and without the caller's tick duration (0.01 s), volume
\* breakpoints at the ticks 0..MaxAutoTick and pan breakpoints at the first
\* and the last of them. Each behaviour follows one call: what it programs
\* depends on its arguments and the clock only.
PlayNoteVoice ==
    /\ ~programmed.called
    /\ \E keyNumber \in {0, NUM_OCTAVES * NOTES_PER_OCTAVE - 1},
          sampleName \in {ORG_M00, ORG_D00}, when \in {0, 100000},
          duration \in {0, 5000, 50000}, pipi \in {Null, 0, 1},
          volumeAutomation \in AutomationLists("volume", 0..MaxAutoTick),
          panAutomation \in AutomationLists("pan", {0, MaxAutoTick}),
          tickDuration \in {Null, 1000} :
        programmed' = playNoteVoice(
            [keyNumber |-> keyNumber, velocity |-> 100, sampleName |-> sampleName,
             pan |-> 0, when |-> when, duration |-> duration, pipi |-> pipi,
             volumeAutomation |-> volumeAutomation, panAutomation |-> panAutomation,
             freqAdjust |-> 0, tickDuration |-> tickDuration],
            now * 5000)
    /\ UNCHANGED <<now, audioVars, transportVars, previewVars, loopVars,
                   trackVisibility, lastTick, storeVars, rateCall, stopCall,
                   imported, measuresCall, workVars>>

SpecProgram == InitVoice /\ [][Tick \/ PlayNoteVoice]_vars

\* ------------------------------------------------------------ loop window
\* PianoRoll.setLoop(enabled, start = null, end = null)
setLoop(w, enabled, start, end) ==
    [loopEnabled |-> enabled,
     loopStart |-> IF start # Null THEN start ELSE w.loopStart,
     loopEnd |-> IF end # Null THEN end ELSE w.loopEnd]

CurLoop == [loopEnabled |-> loopEnabled, loopStart |-> loopStart, loopEnd |-> loopEnd]

SetLoopVars(w) ==
    /\ loopEnabled' = w.loopEnabled
    /\ loopStart' = w.loopStart
    /\ loopEnd' = w.loopEnd

\* OrgParser.convertToNotes, the loop points: the header's tick positions are
\* floored to measures, the loop is enabled when the tick positions differ.
convertToNotes(header) ==
    [loopStart |-> header.loopStart \div TicksPerMeasure,
     loopEnd |-> header.loopEnd \div TicksPerMeasure,
     loopEnabled |-> header.loopEnd > header.loopStart]

\* Math.ceil(n / d) for n >= 0, d > 0
MathCeil(n, d) == (n + d - 1) \div d

\* MidiParser.calculateMeasures: notes carry x (PIANO_KEY_WIDTH plus the
\* position in the grid) and width, in grid units.
calculateMeasures_floor(notes) ==
    IF Len(notes) = 0 THEN 4
    ELSE LET ends == {notes[i].x + notes[i].width : i \in 1..Len(notes)}
             maxX == CHOOSE e \in ends : \A f \in ends : f <= e
             measures == (maxX - PIANO_KEY_WIDTH) \div MeasureWidth
         IN Max(4, measures)

calculateMeasures(notes) ==
    IF Len(notes) = 0 THEN 4
    ELSE LET ends == {notes[i].x + notes[i].width : i \in 1..Len(notes)}
             maxX == CHOOSE e \in ends : \A f \in ends : f <= e
             measures == MathCeil(maxX - PIANO_KEY_WIDTH, MeasureWidth)
         IN Max(4, measures)

\* The notes of an imported file: up to MaxNotes notes snapped to the grid,
\* the first MaxX positions, one or two grid units wide.
GridNotes == [x : {PIANO_KEY_WIDTH + p : p \in 0..MaxX}, width : {1, 2}]
NoteLists == UNION {[1..n -> GridNotes] : n \in 0..MaxNotes}

\* MidiParser.calculateMeasures on the notes convertToNotes collected, once
\* for a file
CalculateMeasures ==
    \E notes \in NoteLists :
        /\ ~measuresCall.called
        /\ measuresCall' = [called |-> TRUE, notes |-> notes,
                            measures |-> calculateMeasures(notes)]
        /\ UNCHANGED <<now, audioVars, transportVars, previewVars, loopVars,
                       trackVisibility, lastTick, storeVars, rateCall, stopCall,
                       imported, programmed, workVars>>

SpecMeasures == InitVoice /\ [][CalculateMeasures]_vars

\* The transport is at rest while the loop window is edited.
InitLoop ==
    /\ InitAudio
    /\ wavetable = TRUE
    /\ InitTransport
    /\ loopEnabled = FALSE /\ loopStart = 0 /\ loopEnd = DefaultMeasures
    /\ displayedMeasure = 0

LoopFrame == UNCHANGED <<now, audioVars, transportVars, previewVars, trackVisibility, lastTick,
                   storeVars, callVars>>

\* PianoRoll.loadOrgFile
LoadOrgFile ==
    \E hs \in 0..MaxTick, he \in 0..MaxTick :
        LET converted == convertToNotes([loopStart |-> hs, loopEnd |-> he]) IN
        /\ SetLoopVars(setLoop(CurLoop, converted.loopEnabled,
                               converted.loopStart, converted.loopEnd))
        /\ UNCHANGED displayedMeasure
        /\ LoopFrame

\* PianoRoll.loadMidiFile
LoadMidiFile ==
    \E notes \in {<<>>} \cup {<<[x |-> PIANO_KEY_WIDTH + measures * MeasureWidth - 1,
                                   width |-> 1]>> : measures \in 1..MaxMeasure} :
        /\ SetLoopVars(setLoop(CurLoop, FALSE, 0, calculateMeasures(notes)))
        /\ UNCHANGED displayedMeasure
        /\ LoopFrame

\* PianoRoll.importFromJSON with a songData.loop entry
ImportFromJSON ==
    \E enabled \in BOOLEAN, start \in 0..MaxMeasure, end \in 0..MaxMeasure :
        /\ SetLoopVars(setLoop(CurLoop, enabled, start, end))
        /\ UNCHANGED displayedMeasure
        /\ LoopFrame

\* The loop button's click handler
LoopButton ==
    /\ loopEnabled' = ~loopEnabled
    /\ UNCHANGED <<loopStart, loopEnd, displayedMeasure>>
    /\ LoopFrame

\* The loop start input's change handler; value is the field's number minus 1.
LoopStartInput ==
    \E value \in (0 - 1)..MaxMeasure :
        /\ loopStart' = IF value >= 0 /\ value < loopEnd THEN value ELSE loopStart
        /\ UNCHANGED <<loopEnabled, loopEnd, displayedMeasure>>
        /\ LoopFrame

\* The loop end input's change handler
LoopEndInput ==
    \E value \in (0 - 1)..MaxMeasure :
        /\ loopEnd' = IF value > loopStart /\ value < TOTAL_MEASURES THEN value ELSE loopEnd
        /\ UNCHANGED <<loopEnabled, loopStart, displayedMeasure>>
        /\ LoopFrame

\* handleClearAll: stop, then reset the loop settings.
HandleClearAll ==
    /\ Set(stop(Cur, now))
    /\ SetLoopVars([loopEnabled |-> FALSE, loopStart |-> 0, loopEnd |-> DefaultMeasures])
    /\ UNCHANGED <<now, wavetable, previewVars, trackVisibility, lastTick, displayedMeasure,
                   storeVars, callVars>>

\* scheduleNotes, one pass of the while loop: the display measure of the
\* schedule measure under the cursor is computed and the cursor moves on.
ScheduleMeasure ==
    /\ sched.lastScheduledMeasure < MaxSchedule
    /\ displayedMeasure' = DisplayMeasure(loopEnabled, loopStart, loopEnd,
                                          sched.lastScheduledMeasure)
    /\ sched' = [sched EXCEPT !.lastScheduledMeasure = @ + 1,
                              !.lastScheduledEndTime = @ + measureDuration]
    /\ UNCHANGED <<now, audioVars, isPlaying, isPaused, currentMeasure, enginePlaying,
                   scheduleTimeout, timers, previewVars, trackVisibility, lastTick,
                   loopEnabled, loopStart, loopEnd, storeVars, callVars>>

NextLoop ==
    \/ LoadOrgFile
    \/ LoadMidiFile
    \/ ImportFromJSON
    \/ LoopButton
    \/ LoopStartInput
    \/ LoopEndInput
    \/ HandleClearAll
    \/ ScheduleMeasure

SpecLoop == InitLoop /\ [][NextLoop]_vars

\* ------------------------------------------------------------ scheduler ticks
\* The playNote calls of the measures visited, in the order they are made.
RECURSIVE VisitCalls(_, _)
VisitCalls(visits, currentTime) ==
    IF visits = <<>> THEN <<>>
    ELSE LET v == Head(visits)
         IN CallsFor(getNotesInMeasures(v.display, v.display + 1),
                     v.time, v.display, currentTime)
            \o VisitCalls(Tail(visits), currentTime)

\* What one run of scheduleNotes at currentTime does from state s: where its
\* cursor starts, the measures its while loop visits, the calls it makes.
TickRecord(s, currentTime) ==
    LET firstTime == IF s.sched.lastScheduledEndTime = 0
                     THEN currentTime ELSE s.sched.lastScheduledEndTime
        firstMeasure == IF s.sched.lastScheduledEndTime = 0
                        THEN s.currentMeasure ELSE s.sched.lastScheduledMeasure
        visits == Visits(firstTime, firstMeasure, currentTime + LOOKAHEAD)
    IN [time |-> currentTime, firstTime |-> firstTime, firstMeasure |-> firstMeasure,
        visits |-> visits, calls |-> VisitCalls(visits, currentTime)]

\* The state PlaybackEngine.play(fromMeasure) hands to its first tick.
PreTick(s, fromMeasure) ==
    [s EXCEPT !.currentMeasure = fromMeasure,
              !.sched = [@ EXCEPT !.lastScheduledEndTime = 0,
                                  !.lastScheduledMeasure = fromMeasure]]

InitSched ==
    /\ InitAudio
    /\ wavetable = TRUE
    /\ InitTransport
    /\ \E w \in LoopWindows : loopEnabled = w[1] /\ loopStart = w[2] /\ loopEnd = w[3]
    /\ displayedMeasure = 0

\* PianoRoll.play, with its first scheduling tick recorded
PlayTick ==
    /\ ~isPlaying
    /\ LET r == play(Cur, now) IN
        /\ WithinBounds(r.ae)
        /\ Set(r)
    /\ lastTick' = TickRecord(PreTick(Cur, IF isPaused THEN currentMeasure ELSE 0), now)
    /\ UNCHANGED <<now, wavetable, previewVars, loopVars, trackVisibility, storeVars, callVars>>

\* The scheduling timer fires, at its due time or later, and the tick is recorded.
TimerTick ==
    /\ enginePlaying
    /\ \E i \in 1..Len(timers) :
        /\ now >= timers[i]
        /\ LET r == timerCallback([Cur EXCEPT !.timers = Remove(timers, i)], now) IN
            /\ WithinBounds(r.ae)
            /\ Set(r)
    /\ lastTick' = TickRecord(Cur, now)
    /\ UNCHANGED <<now, wavetable, previewVars, loopVars, trackVisibility, storeVars, callVars>>

\* PianoRoll.toggleTrackVisibility
ToggleTrackVisibility ==
    \E trackName \in Samples :
        /\ trackVisibility' = IF trackName \in trackVisibility
                              THEN trackVisibility \ {trackName}
                              ELSE trackVisibility \cup {trackName}
        /\ UNCHANGED <<now, audioVars, transportVars, previewVars, loopVars, lastTick,
                       storeVars, callVars>>

NextSched ==
    \/ Tick
    \/ PlayTick
    \/ TimerTick
    \/ Pause
    \/ Stop
    \/ ToggleTrackVisibility

SpecSched == InitSched /\ [][NextSched]_vars

\* ------------------------------------------------------------ suspended playNote calls
\* playNote calls made while the wavetable is not loaded: loadSample fetches
\* the sample's file, the call is suspended at its await and other calls and
\* handlers run before it goes on.
InitAwait ==
    /\ InitAudio
    /\ wavetable = FALSE
    /\ InitTransport
    /\ loopEnabled = FALSE /\ loopStart = 0 /\ loopEnd = DefaultMeasures
    /\ displayedMeasure = 0

\* The bounds of the model with several calls suspended.
Suspendable(ae) ==
    /\ Cardinality(ae.voices) <= MaxVoices
    /\ Len(ae.pending) <= MaxSuspended

\* AudioEngine.playNote called for a note that is not a glissando, held
\* (duration = 0) or with a duration.
PlayNoteAsync ==
    \E key \in Keys, sampleName \in Samples, duration \in Durations :
        LET r == playNote(CurAE, wavetable, Call(key, sampleName, FALSE, 0, duration), now) IN
        /\ Suspendable(r)
        /\ SetAE(r)
        /\ UNCHANGED <<now, wavetable, transportVars, previewVars, loopVars, trackVisibility,
                       lastTick, storeVars, callVars>>

SpecAwait == InitAwait /\ [][Tick \/ PlayNoteAsync \/ ResumePlayNote \/ StopNote]_vars

\* ------------------------------------------------------------ piano keys
\* The piano keys under the mouse (InputHandler), the wavetable not loaded.

\* InputHandler.handlePianoKeyClick: the mouse button goes down on a piano key.
handlePianoKeyClick ==
    /\ ~mouse.isGlissando
    /\ \E key \in Keys :
        LET r == playNote(CurAE, wavetable, Call(key, currentSample, TRUE, 0, 0), now) IN
        /\ Suspendable(r)
        /\ SetAE(r)
        /\ mouse' = [isGlissando |-> TRUE, currentPlayingKey |-> key,
                     lastGlissandoKey |-> key]
    /\ UNCHANGED <<now, wavetable, transportVars, previewVars, loopVars, trackVisibility,
                   lastTick, storeVars, rateCall, stopCall, imported, measuresCall,
                   programmed, scan, editVars>>

\* InputHandler.handleGlissando: the mouse moves with the button down, onto
\* another piano key, or off the piano keys.
handleGlissando ==
    /\ mouse.isGlissando
    /\ \/ \E key \in Keys \ {mouse.lastGlissandoKey} :
            LET r == playNote(CurAE, wavetable, Call(key, currentSample, TRUE, 0, 0), now) IN
            /\ Suspendable(r)
            /\ SetAE(r)
            /\ mouse' = [mouse EXCEPT !.currentPlayingKey = key, !.lastGlissandoKey = key]
       \/ /\ mouse.lastGlissandoKey # NoKey
          /\ mouse' = [mouse EXCEPT !.lastGlissandoKey = NoKey]
          /\ UNCHANGED <<loadedSamples, voices, activeNotes, currentGlissandoNote,
                         currentGlissandoKey, pending>>
    /\ UNCHANGED <<now, wavetable, transportVars, previewVars, loopVars, trackVisibility,
                   lastTick, storeVars, rateCall, stopCall, imported, measuresCall,
                   programmed, scan, editVars>>

\* InputHandler.onMouseUp, "Stop piano key playback" and "Reset all states".
onMouseUp ==
    /\ mouse.isGlissando
    /\ LET stopped == IF mouse.currentPlayingKey # NoKey
                      THEN stopNote(CurAE, mouse.currentPlayingKey, now)
                      ELSE CurAE
       IN SetAE([stopped EXCEPT !.glissNote = NoVoice, !.glissKey = NoKey])
    /\ mouse' = MouseUp
    /\ UNCHANGED <<now, wavetable, transportVars, previewVars, loopVars, trackVisibility,
                   lastTick, storeVars, rateCall, stopCall, imported, measuresCall,
                   programmed, scan, editVars>>

SpecKeys ==
    InitAwait /\ [][Tick \/ handlePianoKeyClick \/ handleGlissando \/ onMouseUp
                       \/ ResumePlayNote]_vars

\* ------------------------------------------------------------ note edits
\* NoteManager with its notesByMeasure cache, under the editor's handlers.
\* x and width are in subdivisions (GRID_WIDTH / GRID_SUBDIVISIONS = 1), the
\* grid snap leaves them as they are; y stays where it is (deltaY = 0, the
\* key stays in range).
NoteIds(nm) == {nm.notes[i].id : i \in 1..Len(nm.notes)}

\* const measure = Math.floor((note.x - PIANO_KEY_WIDTH) / (GRID_WIDTH * BEATS_PER_MEASURE))
measureOfX(x) == (x - PIANO_KEY_WIDTH) \div MeasureWidth

\* NoteManager.groupNotesByMeasure
groupNotesByMeasure(nm) ==
    IF ~nm.needsNoteGrouping THEN nm
    ELSE [nm EXCEPT
            !.notesByMeasure =
                [measure \in EditMeasures |->
                    LET filed == SelectSeq(nm.notes, LAMBDA n : measureOfX(n.x) = measure)
                    IN [i \in 1..Len(filed) |-> filed[i].id]],
            !.needsNoteGrouping = FALSE]

\* Renderer.draw, the listener of 'notesChanged': drawNotes calls
\* getNotesInMeasures, which groups the notes if the flag asks for it.
draw(nm) == groupNotesByMeasure(nm)

\* NoteManager.createNote
createNote(nm, x, width) ==
    LET id == CHOOSE i \in 1..(Len(nm.notes) + 1) : i \notin NoteIds(nm)
    IN [nm EXCEPT !.notes = Append(@, [id |-> id, x |-> x, width |-> width]),
                  !.needsNoteGrouping = TRUE]

\* NoteManager.deleteNote
deleteNote(nm, id) ==
    IF id \in NoteIds(nm)
    THEN [nm EXCEPT !.notes = SelectSeq(@, LAMBDA n : n.id # id),
                    !.selectedNotes = @ \ {id},
                    !.needsNoteGrouping = TRUE]
    ELSE nm

\* The notes with the selected ones changed by f.
EachSelected(nm, f(_)) ==
    [i \in 1..Len(nm.notes) |->
        IF nm.notes[i].id \in nm.selectedNotes THEN f(nm.notes[i]) ELSE nm.notes[i]]

\* NoteManager.moveSelectedNotes(deltaX, 0, snapToGrid)
moveSelectedNotes(nm, deltaX) ==
    LET moved(n) == [n EXCEPT !.x = Max(PIANO_KEY_WIDTH, n.x + deltaX)]
    IN [nm EXCEPT !.notes = EachSelected(nm, moved), !.needsNoteGrouping = TRUE]

\* NoteManager.resizeSelectedNotes(deltaWidth, direction)
resizeSelectedNotes(nm, deltaWidth, direction) ==
    LET resized(n) ==
            IF direction = "right"
            THEN [n EXCEPT !.width = Max(1, n.width + deltaWidth)]
            ELSE IF n.width - deltaWidth >= 1 /\ n.x + deltaWidth >= PIANO_KEY_WIDTH
                 THEN [n EXCEPT !.x = n.x + deltaWidth, !.width = n.width - deltaWidth]
                 ELSE n
    IN [nm EXCEPT !.notes = EachSelected(nm, resized), !.needsNoteGrouping = TRUE]

\* NoteManager.pasteNotes(x, y): a createNote for each note of the clipboard;
\* the new notes are the selection.
RECURSIVE pasteNotes(_, _, _)
pasteNotes(nm, x, clipboard) ==
    IF clipboard = <<>> THEN nm
    ELSE LET made == createNote(nm, x + Head(clipboard).relativeX, Head(clipboard).width)
         IN pasteNotes([made EXCEPT !.selectedNotes = @ \cup {made.notes[Len(made.notes)].id}],
                       x, Tail(clipboard))

\* The notes stay on the model's grid.
OnGrid(nm) ==
    /\ Len(nm.notes) <= MaxNotes
    /\ \A i \in 1..Len(nm.notes) : nm.notes[i].x \in EditXs /\ nm.notes[i].width \in EditWidths

EditFrame ==
    UNCHANGED <<now, audioVars, transportVars, previewVars, loopVars, trackVisibility,
                lastTick, storeVars, rateCall, stopCall, imported, measuresCall,
                programmed, scan, mouse>>

\* A frame of the render loop, or a scheduling tick: getNotesInMeasures.
GetNotesInMeasures ==
    /\ noteManager' = groupNotesByMeasure(noteManager)
    /\ UNCHANGED drag
    /\ EditFrame

\* InputHandler.createNewNote (mouse down on the empty grid)
CreateNewNote ==
    \E x \in EditXs :
        LET made == createNote(noteManager, x, 1) IN
        /\ drag.mode = "none"
        /\ OnGrid(made)
        /\ noteManager' = draw([made EXCEPT !.selectedNotes = {}])
        /\ drag' = [NoDrag EXCEPT !.mode = "create",
                                  !.dragNote = made.notes[Len(made.notes)].id]
        /\ EditFrame

\* InputHandler.handleRightClick on a note
HandleRightClick ==
    \E id \in NoteIds(noteManager) :
        /\ noteManager' = draw(deleteNote(noteManager, id))
        /\ UNCHANGED drag
        /\ EditFrame

\* InputHandler.handleNoteClick with the shift key: toggle the selection.
ShiftClick ==
    \E id \in NoteIds(noteManager) :
        /\ noteManager' = draw([noteManager EXCEPT
                                  !.selectedNotes = IF id \in @ THEN @ \ {id} ELSE @ \cup {id}])
        /\ UNCHANGED drag
        /\ EditFrame

\* InputHandler.onKeyDown, ArrowLeft / ArrowRight: moveSelectedNotes by one grid step.
ArrowKey ==
    \E deltaX \in {0 - 1, 1} :
        LET moved == moveSelectedNotes(noteManager, deltaX) IN
        /\ OnGrid(moved)
        /\ noteManager' = draw(moved)
        /\ UNCHANGED drag
        /\ EditFrame

\* handlePaste: pasteNotes at the mouse, with the clipboard that copySelectedNotes
\* left (one or two notes, the leftmost at relativeX = 0).
HandlePaste ==
    \E x \in EditXs, relativeX \in 0..MeasureWidth, both \in BOOLEAN :
        LET first == [relativeX |-> 0, width |-> 1]
            clipboard == IF both THEN <<first, [relativeX |-> relativeX, width |-> 1]>>
                         ELSE <<first>>
            pasted == pasteNotes([noteManager EXCEPT !.selectedNotes = {}], x, clipboard)
        IN /\ OnGrid(pasted)
           /\ noteManager' = draw(pasted)
           /\ UNCHANGED drag
           /\ EditFrame

\* InputHandler.startDrag (mouse down on the body of a note)
StartDrag ==
    \E id \in NoteIds(noteManager) :
        LET isNoteSelected == id \in noteManager.selectedNotes
            kept == IF isNoteSelected THEN noteManager.selectedNotes ELSE {}
            moving == IF isNoteSelected THEN kept ELSE {id}
            xOf(n) == (CHOOSE note \in {noteManager.notes[i] : i \in 1..Len(noteManager.notes)} :
                           note.id = n).x
        IN /\ drag.mode = "none"
           /\ noteManager' = (IF isNoteSelected THEN noteManager
                              ELSE draw([noteManager EXCEPT !.selectedNotes = {}]))
           /\ drag' = [mode |-> "drag", dragNote |-> id, resizeDirection |-> "none",
                       originalPositions |-> [n \in moving |-> xOf(n)]]
           /\ EditFrame

\* InputHandler.handleDrag (the mouse moves while a note is dragged);
\* targetX is x - dragStartX.
HandleDrag ==
    /\ drag.mode = "drag"
    /\ \E targetX \in (PIANO_KEY_WIDTH - 1)..MaxEditX :
        LET original == drag.originalPositions
            deltaX == targetX - original[drag.dragNote]
            together == drag.dragNote \in noteManager.selectedNotes
                        /\ Cardinality(DOMAIN original) > 1
            dragged(n) ==
                IF together
                THEN IF n.id \in DOMAIN original
                     THEN [n EXCEPT !.x = Max(PIANO_KEY_WIDTH, original[n.id] + deltaX)]
                     ELSE n
                ELSE IF n.id = drag.dragNote
                     THEN [n EXCEPT !.x = Max(PIANO_KEY_WIDTH, targetX)]
                     ELSE n
            moved == [noteManager EXCEPT
                        !.notes = [i \in 1..Len(noteManager.notes) |->
                                      dragged(noteManager.notes[i])]]
        IN /\ OnGrid(moved)
           /\ noteManager' = moved
    /\ UNCHANGED drag
    /\ EditFrame

\* InputHandler.startResize (mouse down on an edge of a note)
StartResize ==
    \E id \in NoteIds(noteManager), direction \in {"left", "right"} :
        LET note == CHOOSE n \in {noteManager.notes[i] : i \in 1..Len(noteManager.notes)} :
                        n.id = id
        IN /\ drag.mode = "none"
           /\ drag' = [mode |-> "resize", dragNote |-> id, resizeDirection |-> direction,
                       originalPositions |-> [n \in {id} |-> note.x],
                       originalNoteWidth |-> note.width]
           /\ UNCHANGED noteManager
           /\ EditFrame

\* InputHandler.handleResize (the mouse moves while an edge is dragged);
\* deltaX is x - dragStartX.
HandleResize ==
    /\ drag.mode = "resize"
    /\ \E deltaX \in {0 - MeasureWidth, 0 - 1, 1, MeasureWidth} :
        LET originalNoteX == drag.originalPositions[drag.dragNote]
            originalNoteEnd == originalNoteX + drag.originalNoteWidth
            single(n) ==
                IF n.id # drag.dragNote THEN n
                ELSE IF drag.resizeDirection = "right"
                THEN [n EXCEPT !.width = Max(1, drag.originalNoteWidth + deltaX)]
                ELSE IF originalNoteEnd - (originalNoteX + deltaX) >= 1
                        /\ originalNoteX + deltaX >= PIANO_KEY_WIDTH
                     THEN [n EXCEPT !.x = originalNoteX + deltaX,
                                    !.width = originalNoteEnd - (originalNoteX + deltaX)]
                     ELSE n
            resized == IF drag.dragNote \in noteManager.selectedNotes
                       THEN resizeSelectedNotes(noteManager, deltaX, drag.resizeDirection)
                       ELSE [noteManager EXCEPT
                               !.notes = [i \in 1..Len(noteManager.notes) |->
                                             single(noteManager.notes[i])]]
        IN /\ OnGrid(resized)
           /\ noteManager' = resized
    /\ UNCHANGED drag
    /\ EditFrame

\* InputHandler.onMouseUp after an edit: 'notesChanged' is emitted, the
\* states are reset.
EndEdit ==
    /\ drag.mode # "none"
    /\ noteManager' = draw(noteManager)
    /\ drag' = NoDrag
    /\ EditFrame

SpecNotes ==
    InitVoice /\ [][GetNotesInMeasures \/ CreateNewNote \/ HandleRightClick \/ ShiftClick
                       \/ ArrowKey \/ HandlePaste \/ StartDrag \/ HandleDrag
                       \/ StartResize \/ HandleResize \/ EndEdit]_vars

\* ------------------------------------------------------------ properties
\* C1: at every instant at most one melodic voice per key number is active
\* (started, still looping, not yet stopped or retired), whatever playNote /
\* stopNote / stopAllNotes calls were made, scheduled notes included.
C1_OneActiveMelodicVoicePerKey ==
    \A key \in Keys :
        Cardinality({v \in voices : v.key = key /\ ActiveMelodic(v, now)}) <= 1

\* C2: a started drum voice is not stopped, cut or un-looped by a later
\* playNote on its key nor by any stopNote.
C2_DrumNotStoppedByNoteCalls ==
    \A v \in voices : v.isDrum =>
        /\ \A key \in Keys :
             LET w == VoiceOf(stopNote(CurAE, key, now).voices, v.id)
             IN w.hasStop = v.hasStop /\ w.loop = v.loop
        /\ \A sampleName \in Samples, isGlissando \in BOOLEAN :
             LET r == playNote(CurAE, wavetable,
                               Call(v.key, sampleName, isGlissando, 0, 0), now)
                 w == VoiceOf(r.voices, v.id)
             IN w.hasStop = v.hasStop /\ w.loop = v.loop

\* A voice is silent from time t on: it has ended, or it is a melodic voice
\* already retiring (loop cleared).
Silenced(v, t) == Ended(v, t) \/ (~v.isDrum /\ ~v.loop)

\* C3: after the transport's stop() no voice remains sounding or pending and
\* the key-to-voice map is empty.
C3_StopSilencesEveryVoice ==
    LET r == stop(Cur, now) IN
    /\ \A key \in Keys : r.ae.activeNotes[key] = NoVoice
    /\ \A v \in r.ae.voices : Silenced(v, now + AUDIO_STOP_DELAY)

\* A voice of the song (scheduled with a duration, or a drum) is created in this step.
SongVoiceStarts ==
    \E v \in voices' :
        /\ v.id \notin {w.id : w \in voices}
        /\ (v.hasStop \/ v.isDrum)

\* C4: once stop() or pause() has returned, no scheduling timer is pending
\* and no voice of the song is started until the next play().
C4_NoVoiceStartAfterStopOrPause ==
    [][(~isPlaying /\ ~isPlaying') =>
          (scheduleTimeout = NoTimer /\ ~SongVoiceStarts)]_vars

Stopped == ~isPlaying /\ ~isPaused
Playing == isPlaying /\ ~isPaused
Paused == ~isPlaying /\ isPaused

\* C5: the transport is in exactly one of Stopped, Playing, Paused; it never
\* goes from Stopped to Paused (every other change of state is one of the
\* listed transitions); pause() while Stopped and play() while Playing
\* change nothing.
C5_TransportStateMachine ==
    [][/\ ~(isPlaying /\ isPaused)
       /\ ~(isPlaying' /\ isPaused')
       /\ ~(Stopped /\ Paused')
       /\ (Stopped => pause(Cur) = Cur)
       /\ (Playing => play(Cur, now) = Cur)]_vars

C5_Witness == Paused /\ sched.lastScheduledMeasure > 0

\* C6: play() from Stopped starts at measure 0 whatever the position was;
\* play() from Paused starts at the measure where pause() left the position.
C6_PlayStartsAtMeasure ==
    [][(~isPlaying /\ isPlaying') =>
          LET from == IF isPaused THEN currentMeasure ELSE 0 IN
          /\ sched'.playbackStartMeasure = from
          /\ currentMeasure' = DisplayMeasure(loopEnabled, loopStart, loopEnd, from)]_vars

C6_Witness == isPlaying /\ sched.playbackStartMeasure > 0

\* C7: stop() twice leaves the state stop() once leaves: Stopped, measure 0,
\* empty key-to-voice map, so that the second call finds no voice to stop.
C7_StopIdempotent ==
    LET s1 == stop(Cur, now)
        s2 == stop(s1, now)
    IN /\ s2 = s1
       /\ ~s1.isPlaying /\ ~s1.isPaused /\ s1.currentMeasure = 0
       /\ {key \in Keys : s1.ae.activeNotes[key] # NoVoice} = {}

C7_Witness == isPlaying /\ currentMeasure > 0 /\ \E key \in Keys : activeNotes[key] # NoVoice

\* C8: while the transport is Paused the current measure and the schedule
\* cursor do not change.
C8_PausedPositionFrozen ==
    [][(Paused /\ Paused') => (currentMeasure' = currentMeasure /\ sched' = sched)]_vars

C8_Witness == Paused /\ sched.lastScheduledEndTime > 0 /\ now >= sched.lastScheduledEndTime

\* The schedule measure m wrapped into the loop window, as the claim states it.
Wrapped(ls, le, m) == ls + ((m - ls) % (le - ls))

\* C9: with the loop enabled and loopStart < loopEnd, a schedule measure
\* m >= loopEnd is played as loopStart + ((m - loopStart) mod (loopEnd -
\* loopStart)), inside [loopStart, loopEnd); a measure below loopEnd is played
\* unchanged; for the window 0..4 the schedule measure 5 plays measure 1.
C9_LoopWrap ==
    [][(sched'.lastScheduledMeasure = sched.lastScheduledMeasure + 1
        /\ loopEnabled /\ loopStart < loopEnd) =>
          LET m == sched.lastScheduledMeasure IN
          /\ m >= loopEnd => /\ displayedMeasure' = Wrapped(loopStart, loopEnd, m)
                             /\ loopStart <= displayedMeasure'
                             /\ displayedMeasure' < loopEnd
          /\ m < loopEnd => displayedMeasure' = m
          /\ (loopStart = 0 /\ loopEnd = 4 /\ m = 5) => displayedMeasure' = 1]_vars

C9_Witness ==
    /\ loopEnabled /\ loopStart = 1 /\ loopEnd = 3
    /\ sched.lastScheduledMeasure = 5 /\ displayedMeasure = 2

\* C10: whenever the loop is enabled, loopStart < loopEnd.
C10_LoopWindowOrdered == loopEnabled => loopStart < loopEnd

\* A scheduling tick happens in this step.
Ticked == lastTick' # lastTick

\* The instrument of a voice of the song.
InstrumentOf(v) == IF v.isDrum THEN ORG_D00 ELSE ORG_M00

NewVoices == {v \in voices' : v.id \notin {w.id : w \in voices}}

\* The song's notes that start in a visited measure, at or after the tick's time.
DueNotes(t) ==
    {<<i, j>> \in (1..Len(t.visits)) \X (1..Len(Song)) :
        /\ MeasureOf(Song[j]) = t.visits[i].display
        /\ t.visits[i].time + (Song[j].x - t.visits[i].display * MeasureWidth) >= t.time}

C12_CursorAdvancesByMeasures ==
    [][(isPlaying /\ isPlaying' /\ Ticked) =>
          LET t == lastTick' IN
          /\ t.firstMeasure = sched.lastScheduledMeasure
          /\ t.firstTime = sched.lastScheduledEndTime
          /\ \A i \in 1..Len(t.visits) :
                /\ t.visits[i].measure = sched.lastScheduledMeasure + (i - 1)
                /\ t.visits[i].time = sched.lastScheduledEndTime + (i - 1) * measureDuration
          /\ sched'.lastScheduledMeasure = sched.lastScheduledMeasure + Len(t.visits)
          /\ sched'.lastScheduledEndTime =
                sched.lastScheduledEndTime + Len(t.visits) * measureDuration
          /\ \A i \in 1..Len(t.calls) : t.calls[i].when >= sched.lastScheduledEndTime
          /\ \A i, j \in 1..Len(t.calls) : i # j => t.calls[i] # t.calls[j]
          /\ Cardinality(NewVoices) = Len(t.calls)]_vars

C12_Witness ==
    /\ isPlaying
    /\ lastTick.firstMeasure > 0
    /\ lastTick.visits # <<>>
    /\ lastTick.calls # <<>>

\* A tick is late: the render clock has passed the window the tick before covered.
Delayed == now > lastTick.time + LOOKAHEAD

\* C13: a tick delayed beyond the lookahead window visits every measure from
\* the cursor on, none skipped, and ends with the cursor at or beyond
\* now + LOOKAHEAD.
C13_DelayedTickCatchesUp ==
    [][(isPlaying /\ isPlaying' /\ Ticked /\ Delayed) =>
          LET t == lastTick' IN
          /\ t.visits # <<>>
          /\ \A i \in 1..Len(t.visits) :
                t.visits[i].measure = sched.lastScheduledMeasure + (i - 1)
          /\ sched'.lastScheduledMeasure = sched.lastScheduledMeasure + Len(t.visits)
          /\ sched'.lastScheduledEndTime >= now + LOOKAHEAD
          /\ sched'.lastScheduledEndTime - measureDuration < now + LOOKAHEAD]_vars

C13_Witness ==
    /\ isPlaying
    /\ lastTick.time = now
    /\ Len(lastTick.visits) >= 2
    /\ lastTick.firstTime < now

\* C14: no playNote call of a tick carries a start time earlier than the
\* render clock read at the start of the tick, and no voice it starts begins
\* earlier.
C14_NoNoteScheduledInThePast ==
    [][Ticked =>
          /\ \A i \in 1..Len(lastTick'.calls) : lastTick'.calls[i].when >= now
          /\ \A v \in NewVoices : v.start >= now]_vars

C14_Witness ==
    /\ trackVisibility = {}
    /\ lastTick.time = now
    /\ lastTick.visits # <<>>
    /\ lastTick.visits[1].display = 1
    /\ lastTick.visits[1].time < lastTick.time
    /\ \A i \in 1..Len(lastTick.calls) : lastTick.calls[i].key # 1

\* The last calculatePlaybackRate call was for a melodic note without
\* frequency adjustment.
MelodicRateCall == rateCall.called /\ ~rateCall.isDrum /\ rateCall.freqAdjust = 0

\* The key clamped to the piano roll.
ClampedKey(keyNumber) == Max(0, Min(NUM_OCTAVES * NOTES_PER_OCTAVE - 1, keyNumber))

\* C15: for every key k of the piano roll (0..575, no frequency adjustment)
\* the melodic playback rate is strictly positive and not lower than the
\* rate of any key below k.
C15_RatePositiveAndMonotone ==
    MelodicRateCall /\ rateCall.keyNumber \in PianoKeys =>
        /\ RatePositive(rateCall.rate)
        /\ \A k1 \in 0..rateCall.keyNumber :
              RateLeq(calculatePlaybackRate(k1, FALSE, 0), rateCall.rate)

\* C16: for a key outside the piano roll the melodic playback rate is the
\* rate of the key clamped to 0..575: that of key 0 for a negative key, that
\* of key 575 for a key above 575.
C16_OutsideKeysClamped ==
    MelodicRateCall /\ rateCall.keyNumber \notin PianoKeys =>
        rateCall.rate = calculatePlaybackRate(ClampedKey(rateCall.keyNumber), FALSE, 0)

\* C17: after a loadWavetable call that reported failure (the fetch failed, or
\* parsing threw part-way) the store holds no melodic and no drum data: the
\* wavetable is unset and the drums list is empty.
C17_FailedLoadLeavesStoreEmpty ==
    loadReturn = "false" => ~wavetable /\ drums = 0

\* The name is no wave of a loaded wavetable: not 'ORG_M00'..'ORG_M99', not
\* the name of a drum in AudioEngine.drums.
UnknownInstrument(sampleName) ==
    /\ ~(sampleName.kind = "M" /\ sampleName.index <= 99)
    /\ ~(sampleName.kind = "D" /\ sampleName.index < drums)

\* C18: with the wavetable loaded, a playNote call for an unknown instrument
\* that runs to its end has started a melodic voice for its key.
C18_UnknownInstrumentPlaysDefault ==
    [][\A i \in 1..Len(pending) :
          /\ wavetable
          /\ UnknownInstrument(pending[i].sampleName)
          /\ pending' = Remove(pending, i)
          => \E v \in NewVoices : ~v.isDrum /\ v.key = pending[i].key]_vars

\* C19: stopNote never lets an exception out: when stopping or disconnecting
\* the voice's nodes throws, the error is swallowed and the key is still
\* removed from the key-to-voice map.
C19_StopNoteSwallowsErrors ==
    [][stopCall' # stopCall =>
          /\ ~stopCall'.thrown
          /\ activeNotes'[stopCall'.key] = NoVoice]_vars

\* stopNote found a voice on the key, its source.stop threw and so did
\* disconnect; the key is free and the voice was left as it was.
C19_Witness ==
    /\ stopCall.called
    /\ stopCall.voice # NoVoice
    /\ stopCall.stopThrows
    /\ stopCall.disconnectThrows
    /\ ~stopCall.thrown
    /\ activeNotes[stopCall.key] = NoVoice
    /\ \E v \in voices : v.id = stopCall.voice /\ ~v.hasStop

\* C20: when playNote starts a melodic voice on a key that has a live melodic
\* voice, the old voice is set non-looping and is not stopped, and after the
\* call the key's map entry is the new voice; for preview notes and for
\* scheduled notes (with a duration) alike.
C20_NewVoiceTakesOverKey ==
    [][\A v \in NewVoices : \A o \in voices :
          ~v.isDrum /\ o.key = v.key /\ ActiveMelodic(o, now) =>
              /\ \E o2 \in voices' :
                    /\ o2.id = o.id
                    /\ ~o2.loop
                    /\ o2.hasStop = o.hasStop
                    /\ o2.stop = o.stop
              /\ activeNotes'[v.key] = v.id]_vars

\* C21: a cached buffer is never replaced: once loadedSamples holds a buffer
\* for a name, every later loadSample for the name, also one that was awaiting
\* its fetch meanwhile, leaves that buffer in the cache.
C21_CachedBufferNeverReplaced ==
    [][\A n \in Samples :
          sampleBuffers[n] # NoBuffer => sampleBuffers'[n] = sampleBuffers[n]]_vars

\* C22: getSampleList gives the 100 melodic names ORG_M00..ORG_M99 and at
\* most MAX_DRUMS drum names (ORG_D00 onwards), however many drums the
\* wavetable holds and whether or not it is loaded.
C22_SampleListBounded ==
    LET list == getSampleList(wavetable, drums) IN
    /\ Len(list.melodicSamples) = 100
    /\ \A i \in 1..100 :
          list.melodicSamples[i].kind = "M" /\ list.melodicSamples[i].index = i - 1
    /\ Len(list.drumSamples) <= MAX_DRUMS
    /\ \A i \in 1..Len(list.drumSamples) :
          list.drumSamples[i].kind = "D" /\ list.drumSamples[i].index = i - 1

\* The wavetable is loaded and holds more drums than MAX_DRUMS.
C22_Witness ==
    /\ wavetable
    /\ drums > MAX_DRUMS
    /\ Len(getSampleList(wavetable, drums).drumSamples) = MAX_DRUMS

\* C23: every note an importer produces (OrgParser.convertToNotes,
\* MidiParser.convertToNotes) has its key in 0..575, its velocity in 0..127
\* and its pan in -100..100.
C23_ImportedNoteInContract ==
    imported.parser # "none" =>
        /\ imported.key \in 0..(NUM_OCTAVES * NOTES_PER_OCTAVE - 1)
        /\ imported.velocity \in 0..127
        /\ imported.pan6 \in (0 - 600)..600

\* C24: the song length calculateMeasures gives is never below 4 measures:
\* it is 4 for an empty note list, and otherwise the larger of 4 and the
\* number of whole or started measures up to the last note end, the end
\* being the note's position in the grid plus its width.
C24_MeasuresFromLastNoteEnd ==
    measuresCall.called =>
        LET notes == measuresCall.notes
            NoteEnd(n) == n.x - PIANO_KEY_WIDTH + n.width
            Covers(m) == \A i \in 1..Len(notes) : NoteEnd(notes[i]) <= m * MeasureWidth
        IN /\ measuresCall.measures >= 4
           /\ Len(notes) = 0 => measuresCall.measures = 4
           /\ Covers(measuresCall.measures)
           /\ measuresCall.measures > 4 => ~Covers(measuresCall.measures - 1)

\* A file whose last note ends inside the sixth measure.
C24_Witness ==
    /\ measuresCall.called
    /\ Len(measuresCall.notes) = 2
    /\ measuresCall.notes[1].x + measuresCall.notes[1].width - PIANO_KEY_WIDTH = 11
    /\ measuresCall.notes[2].x < measuresCall.notes[1].x
    /\ measuresCall.measures = 6

\* C25: playNote does not mutate the note it is given: after the call the
\* note's fields and its volumeAutomation and panAutomation lists, their
\* elements and their order, are what they were before it.
C25_NoteNotMutated ==
    programmed.called => programmed.after = programmed.given

\* A melodic note whose two lists were both given out of tick order was
\* played and its automation programmed.
C25_Witness ==
    /\ programmed.called
    /\ programmed.thrown = "none"
    /\ ~IsDrumName(programmed.given.sampleName)
    /\ Len(programmed.given.volumeAutomation.points) = 2
    /\ programmed.given.volumeAutomation.points[1].tick
          > programmed.given.volumeAutomation.points[2].tick
    /\ Len(programmed.given.panAutomation.points) = 2
    /\ programmed.given.panAutomation.points[1].tick
          > programmed.given.panAutomation.points[2].tick
    /\ Len(programmed.gainEvents) >= 4
    /\ Len(programmed.panEvents) = 2
    /\ programmed.after.volumeAutomation = programmed.given.volumeAutomation

\* C26: a melodic voice that loops without end (pipi 0 or absent), scheduled
\* at time T with a duration D > 0, is stopped at a time in
\* [T + D, T + D + 100 ms] and silenced no later.
C26_ScheduledStopWithinTolerance ==
    (/\ programmed.called
     /\ programmed.started
     /\ ~IsDrumName(programmed.given.sampleName)
     /\ programmed.given.pipi \in {Null, 0}
     /\ programmed.given.duration > 0)
    => LET T == programmed.startTime
           D == programmed.given.duration
           n == Len(programmed.stops)
           g == Len(programmed.gainEvents)
       IN /\ n >= 1
          /\ programmed.stops[n] >= T + D
          /\ programmed.stops[n] <= T + D + 10000
          /\ programmed.gainEvents[g].value = "0"
          /\ programmed.gainEvents[g].time <= T + D + 10000

\* A looping melodic voice scheduled one second ahead for half a second.
C26_Witness ==
    /\ programmed.called
    /\ programmed.started
    /\ ~IsDrumName(programmed.given.sampleName)
    /\ programmed.given.pipi = 0
    /\ programmed.given.when = 100000
    /\ programmed.given.duration = 50000
    /\ programmed.stops = <<150000>>

\* C27: a melodic note with pipi = n > 0 and a duration D > 0 gives a voice
\* that is stopped at start + loopDuration when loopDuration < D and at
\* start + D otherwise, loopDuration being
\* 256 * octSizes[octave] * n / (sampleRate * playbackRate).
C27_FiniteLoopStop ==
    (/\ programmed.called
     /\ programmed.thrown # "RangeError"
     /\ ~IsDrumName(programmed.given.sampleName)
     /\ programmed.given.pipi # Null /\ programmed.given.pipi > 0
     /\ programmed.given.duration > 0)
    => LET c == programmed.given
           octSizes == <<4, 8, 12, 16, 20, 24, 28, 32>>
           rate == calculatePlaybackRate(c.keyNumber, FALSE, c.freqAdjust)
           loops == octSizes[Min(c.keyNumber \div NOTES_PER_OCTAVE, 7) + 1] * c.pipi
           loopDuration == (loops * rate.den * 100000) \div rate.num
           n == Len(programmed.stops)
       IN /\ programmed.started
          /\ n >= 1
          /\ programmed.stops[n] = programmed.startTime
                + (IF loopDuration < c.duration THEN loopDuration ELSE c.duration)

\* C28: a drum voice has no automation: started with non-empty volume and
\* pan lists, its gain has the initial event only and its pan has none.
C28_DrumsNotAutomated ==
    (programmed.called /\ IsDrumName(programmed.given.sampleName))
    => /\ programmed.gainEvents
            = <<ParamEvent("setValueAtTime", programmed.startTime, 0, "authenticVolume")>>
       /\ programmed.panEvents = <<>>

\* A drum was started with two volume and two pan breakpoints.
C28_Witness ==
    /\ programmed.called
    /\ programmed.started
    /\ IsDrumName(programmed.given.sampleName)
    /\ Len(programmed.given.volumeAutomation.points) = 2
    /\ Len(programmed.given.panAutomation.points) = 2
    /\ Len(programmed.gainEvents) = 1

\* C29: whatever the order of a breakpoint list, the events its automation
\* programs are in non-decreasing tick order, each at
\* startTime + tick * secondsPerTick for a breakpoint of the list; an empty
\* or absent list programs none.
C29_AutomationAtTickTimes ==
    (programmed.called /\ programmed.thrown = "none")
    => LET c == programmed.given
           scheduled == c.duration > 0 /\ ~IsDrumName(c.sampleName)
           last == Len(programmed.gainEvents) - (IF scheduled THEN 1 ELSE 0)
           gains == SubSeq(programmed.gainEvents, 2, last)
           AtTicks(events, list) ==
               LET spt == actualTickDuration(c.tickDuration, c.duration,
                                             SortByTick(list.points))
               IN /\ \A i \in 1..Len(events) :
                        \E j \in 1..Len(list.points) :
                            events[i].time = programmed.startTime + list.points[j].tick * spt
                  /\ \A i \in 1..(Len(events) - 1) : events[i].time <= events[i + 1].time
       IN /\ (~c.volumeAutomation.given \/ c.volumeAutomation.points = <<>>) => gains = <<>>
          /\ (~c.panAutomation.given \/ c.panAutomation.points = <<>>)
                => programmed.panEvents = <<>>
          /\ gains # <<>> => AtTicks(gains, c.volumeAutomation)
          /\ programmed.panEvents # <<>> => AtTicks(programmed.panEvents, c.panAutomation)

\* The ordinals of the complete PCM mono records of a blob, in file order.
DrumRecords(blob) ==
    SelectSeq([i \in 1..Len(blob) |-> i], LAMBDA i : blob[i] = "drum")

C38_OctaveDoublesRate ==
    (rateCall.called /\ ~rateCall.isDrum /\ rateCall.keyNumber \in 0..503) =>
        LET low == rateCall.rate
            high == calculatePlaybackRate(rateCall.keyNumber + NOTES_PER_OCTAVE, FALSE,
                                          rateCall.freqAdjust)
        IN /\ high.per = low.per
           /\ low.num > 0 /\ low.den > 0 /\ high.den > 0
           /\ high.num * low.den = 2 * low.num * high.den

\* The rate of the last key the claim covers, 503 in octave 6, was computed
\* with a frequency adjustment.
C38_Witness ==
    /\ rateCall.called
    /\ ~rateCall.isDrum
    /\ rateCall.keyNumber = 503
    /\ rateCall.freqAdjust = 100
    /\ rateCall.rate.den = 16

\* C39: the drum scan of loadWavetable terminates: from one iteration of the
\* outer WAVE search to the next, and from one iteration of the inner
\* data-chunk search to the next, the scan index strictly increases, whatever
\* riffLen and chunkSize the blob holds, and the scan comes to its end.
C39_DrumScanTerminates ==
    /\ [][/\ (scan.phase \in {"outer", "inner"} /\ scan'.phase = "outer")
                => scan'.i > scan.top
          /\ (scan.phase = "inner" /\ scan'.phase = "inner") => scan'.i > scan.i]_vars
    /\ (scan.phase \in {"outer", "inner"}) ~> (scan.phase \in {"done", "threw"})

\* The scan went through a WAVE record, found its data chunk after the
\* data-chunk search had run past the record's end, went back to the end of
\* the record and came to the end of the blob.
C39_Witness ==
    /\ scan.phase = "done"
    /\ scan.found = 1
    /\ scan.riffLen = 0
    /\ scan.top > scan.startPos

\* C31: a tick that runs within LOOKAHEAD of the tick before it, or that is
\* the first tick of a play, skips no note as already in the past: every
\* measure it visits starts at or after the render clock, and every note of
\* a visible track in a visited measure is dispatched with its start time,
\* which is not before the render clock.
C31_TimelyTicksSkipNoNote ==
    [][(Ticked /\ (~isPlaying \/ ~Delayed)) =>
          LET t == lastTick' IN
          \A i \in 1..Len(t.visits) :
              /\ t.visits[i].time >= now
              /\ \A j \in 1..Len(Song) :
                    (/\ MeasureOf(Song[j]) = t.visits[i].display
                     /\ Song[j].instrument \notin trackVisibility)
                    => \E c \in 1..Len(t.calls) :
                          /\ t.calls[c].key = Song[j].key
                          /\ t.calls[c].sampleName = Song[j].instrument
                          /\ t.calls[c].when = t.visits[i].time
                                + (Song[j].x - t.visits[i].display * MeasureWidth)
                          /\ t.calls[c].when >= now]_vars

\* A timer tick ran one poll interval after the tick before it, found the
\* cursor ahead of the render clock and dispatched the notes of the next
\* measure.
C31_Witness ==
    /\ isPlaying
    /\ lastTick.time = now
    /\ lastTick.firstTime > lastTick.time
    /\ lastTick.firstMeasure > 0
    /\ lastTick.visits # <<>>
    /\ lastTick.calls # <<>>

\* C32: with a second playNote on a key made while the first is suspended at
\* its await, no endlessly looping voice is orphaned: every started melodic
\* voice that has no stop deadline and still loops is the map entry of its key.
C32_NoLoopingVoiceOrphaned ==
    \A v \in voices :
        (~v.isDrum /\ ~v.hasStop /\ v.loop) => activeNotes[v.key] = v.id

\* The suspended call at position i goes on with no buffer: it returns
\* without a voice.
ReturnsWithoutBuffer(i) ==
    /\ pending' = Remove(pending, i)
    /\ voices' = voices

\* C34: a playNote whose loadSample returns null starts no voice and leaves
\* the allocator state as it found it: the voice that sounded on its key
\* still loops and is still the map entry of the key.
C34_FailedLoadLeavesVoice ==
    [][\A i \in 1..Len(pending) :
          (ReturnsWithoutBuffer(i) /\ pending[i].existing # NoVoice) =>
              /\ activeNotes'[pending[i].key] = pending[i].existing
              /\ \E v \in voices' : v.id = pending[i].existing /\ v.loop]_vars

\* The voices nothing has stopped or set non-looping.
HeldVoices == {v \in voices : ~v.hasStop /\ (v.isDrum \/ v.loop)}

\* C33: a piano key released while the playNote of its press is suspended
\* does not keep sounding: with the button up and no call suspended, the map
\* holds no voice and currentGlissandoNote is null.
C33_ReleasedKeyFallsSilent ==
    (~mouse.isGlissando /\ pending = <<>>) =>
        /\ \A key \in Keys : activeNotes[key] = NoVoice
        /\ currentGlissandoNote = NoVoice

\* C35: during a glissando on the piano keys exactly one preview voice
\* exists, the map holds it under the key played last and under no other, and
\* the release leaves no entry in the map.
C35_OneGlissandoVoice ==
    /\ [](mouse.isGlissando /\ pending = <<>> =>
            /\ Cardinality(HeldVoices) = 1
            /\ \A v \in HeldVoices :
                  \A key \in Keys :
                      activeNotes[key] = (IF key = mouse.currentPlayingKey /\ ~v.isDrum
                                          THEN v.id ELSE NoVoice))
    /\ [][(mouse.isGlissando /\ ~mouse'.isGlissando) =>
             \A key \in Keys : activeNotes'[key] = NoVoice]_vars

\* How often the cache lists note id under measure.
TimesListed(id, measure) ==
    Cardinality({i \in 1..Len(noteManager.notesByMeasure[measure]) :
                    noteManager.notesByMeasure[measure][i] = id})

\* C36: whenever needsNoteGrouping is false the notesByMeasure cache is
\* coherent: every note is listed exactly once, under the measure
\* floor((x - PIANO_KEY_WIDTH) / (GRID_WIDTH * BEATS_PER_MEASURE)) of its
\* current x, whatever edits were made.
C36_CacheCoherent ==
    ~noteManager.needsNoteGrouping =>
        \A i \in 1..Len(noteManager.notes) :
            \A measure \in EditMeasures :
                TimesListed(noteManager.notes[i].id, measure)
                    = (IF measure = measureOfX(noteManager.notes[i].x) THEN 1 ELSE 0)

\* C37: whatever play / pause / stop calls are made, a pause or stop followed
\* at once by play included, at most one scheduling timer is pending; a tick
\* while Playing is the firing of that one timer and leaves one timer
\* pending, it visits no measure time that an earlier tick of the run has
\* visited and makes no call twice.
C37_OneSchedulingLoop ==
    /\ [](Len(timers) <= 1)
    /\ [][(isPlaying /\ isPlaying' /\ Ticked) =>
            /\ timers = <<scheduleTimeout>>
            /\ timers' = <<scheduleTimeout'>>
            /\ \A i \in 1..Len(lastTick'.visits) :
                  lastTick'.visits[i].time >= sched.lastScheduledEndTime
            /\ \A i, j \in 1..Len(lastTick'.calls) :
                  i # j => lastTick'.calls[i] # lastTick'.calls[j]]_vars

\* play() resumed a paused song at this instant, at a later measure, and one
\* timer is pending, due one poll interval ahead.
C37_Witness ==
    /\ isPlaying
    /\ sched.playbackStartTime = now
    /\ sched.playbackStartMeasure > 0
    /\ lastTick.time = now
    /\ timers = <<now + POLL_INTERVAL>>
====
